---- MODULE Spec2Model ----
(***************************************************************************)
(* A model of the uproot-custom deserializer: the BinaryBuffer cursor,    *)
(* the readers composed into a tree, and the per-event driver loop        *)
(* py_read_data.  Two variants of the library live in the repository:     *)
(*   "uproot" : src/cpp/src/uproot-custom.cc  (namespace uproot, readers  *)
(*              derived from IElementReader, driver with a length check), *)
(*   "proxy"  : src/src/cpp/include/uproot-custom.hh and                  *)
(*              src/src/cpp/src/uproot-custom-cpp.cc (proxy facade).      *)
(* A reader's read is executed step by step on an explicit call stack:    *)
(* one step per leaf read, per header, per loop iteration and per check.  *)
(* The host is little-endian (the builds of the package are x86/arm64).   *)
(***************************************************************************)
EXTENDS Integers, Sequences, FiniteSets, TLC

(***************************************************************************)
(* Bounds of the model.                                                    *)
(***************************************************************************)
\* the largest number of events of a session
MaxEvents == 2
\* how many bytes past the end of the blob a read may return before the
\* process is certain to fault
MaxOverrun == 2

(***************************************************************************)
(* Numbers.  TLC integers are 32 bits wide, so a uint32_t or a pointer    *)
(* difference is kept as two limbs <<hi, lo>>, value hi * 2^16 + lo with  *)
(* 0 <= lo < 2^16.                                                         *)
(***************************************************************************)
Limb == 256 * 256

Norm(h, l) == <<h + (l \div Limb), l % Limb>>

NInt(n) == Norm(0, n)

NAdd(a, b) == Norm(a[1] + b[1], a[2] + b[2])

NSub(a, b) == Norm(a[1] - b[1], a[2] - b[2])

NLt(a, b) == a[1] < b[1] \/ (a[1] = b[1] /\ a[2] < b[2])

\* conversion to uint32_t: reduction modulo 2^32
Wrap32(a) == <<a[1] % Limb, a[2]>>

\* a number known to be small, as a TLC integer
Small(a) == a[1] * Limb + a[2]

IsSmall(a) == a[1] >= 0 /\ a[1] < 16384

(***************************************************************************)
(* Values.  A value of an n-byte integer type is its object               *)
(* representation on the host: n bytes, least significant first.          *)
(***************************************************************************)
\* the uint32_t held by four bytes of host memory
U32(v) == <<v[4] * 256 + v[3], v[2] * 256 + v[1]>>

RECURSIVE Pow256(_)
Pow256(k) == IF k = 0 THEN 1 ELSE 256 * Pow256(k - 1)

RECURSIVE USum(_, _)
\* the unsigned number held by the low k bytes of v (it must fit 31 bits)
USum(v, k) == IF k = 0 THEN 0 ELSE USum(v, k - 1) + v[k] * Pow256(k - 1)

\* the number a value of a signed type of at most 4 bytes stands for
SignedValue(v) ==
    LET n == Len(v)
    IN  IF v[n] >= 128
        THEN USum(v, n - 1) + (v[n] - 256) * Pow256(n - 1)
        ELSE USum(v, n)

\* the number a value of an unsigned type of at most 2 bytes stands for
UnsignedValue(v) == USum(v, Len(v))

(***************************************************************************)
(* Constants of the wire format.                                           *)
(***************************************************************************)
kByteCountMask == 1073741824

\* 0xFFFFFFFF
kNewClassTag == <<65535, 65535>>

\* TObject status bit 1 << 4
kIsReferenced == 16

\* byte_count & mask, for a mask of one bit in the upper limb
HasBit(a, mask) == (a[1] \div (mask \div Limb)) % 2 = 1

\* byte_count & ~mask
ClearBit(a, mask) == IF HasBit(a, mask) THEN <<a[1] - (mask \div Limb), a[2]>> ELSE a

TypeSize(T) ==
    CASE T \in {"uint8_t", "int8_t"} -> 1
      [] T \in {"uint16_t", "int16_t"} -> 2
      [] T \in {"uint32_t", "int32_t", "float"} -> 4
      [] T \in {"uint64_t", "int64_t", "double"} -> 8

IsSignedType(T) == T \in {"int8_t", "int16_t", "int32_t", "int64_t"}

IsFloatType(T) == T \in {"float", "double"}

(***************************************************************************)
(* Reader trees.  A node is a reader; kids are the indices of its child   *)
(* readers in the tree, flag is with_header (STL readers) or is_obj       *)
(* (CArrayReader), n is flat_size.                                         *)
(***************************************************************************)
Node(kind, T, kids, flag, n) ==
    [kind |-> kind, T |-> T, kids |-> kids, flag |-> flag, n |-> n]

BasicTypeReader(T) == Node("BasicTypeReader", T, <<>>, FALSE, 0)
TStringReader == Node("TStringReader", "", <<>>, FALSE, 0)
EmptyReader == Node("EmptyReader", "", <<>>, FALSE, 0)
NBytesVersionReader(k) == Node("NBytesVersionReader", "", <<k>>, FALSE, 0)
ObjectHeaderReader(k) == Node("ObjectHeaderReader", "", <<k>>, FALSE, 0)
GroupReader(ks) == Node("GroupReader", "", ks, FALSE, 0)
\* BaseObjectReader of the uproot variant, ObjectReader of the proxy variant
ObjectReader(ks) == Node("ObjectReader", "", ks, FALSE, 0)
STLSeqReader(h, k) == Node("STLSeqReader", "", <<k>>, h, 0)
CArrayReader(o, n, k) == Node("CArrayReader", "", <<k>>, o, n)
TArrayReader(T) == Node("TArrayReader", T, <<>>, FALSE, 0)
STLStringReader(h) == Node("STLStringReader", "", <<>>, h, 0)
\* STLMapReader of the proxy variant: object-wise
STLMapReader(h, k, v) == Node("STLMapReader", "obj_wise", <<k, v>>, h, 0)
\* STLMapReader of the uproot variant, w its is_obj_wise
STLMapReaderWise(h, w, k, v) ==
    Node("STLMapReader", IF w THEN "obj_wise" ELSE "member_wise", <<k, v>>, h, 0)
\* TObjectReader of the proxy variant
TObjectReader == Node("TObjectReader", "", <<>>, FALSE, 0)
\* TObjectReader of the uproot variant, kd its keep_data
TObjectReaderKeep(kd) == Node("TObjectReader", "vectors", <<>>, kd, 0)
\* CStyleArrayReader of the uproot variant, n its flat_size
CStyleArrayReader(n, k) == Node("CStyleArrayReader", "", <<k>>, FALSE, n)

\* the readers of the uproot variant that override read( buffer, count ) and
\* read( buffer, end_pos )
IsSTL(kind) == kind \in {"STLSeqReader", "STLMapReader", "STLStringReader"}

\* readers that own an offsets vector (seeded with one 0)
HasOffsets(kind) == kind \in {"TStringReader", "STLSeqReader", "TArrayReader",
                              "STLStringReader", "STLMapReader",
                              "CStyleArrayReader"}

(***************************************************************************)
(* Event bytes the sessions are drawn from.                                *)
(***************************************************************************)
\* fNBytes = k with the byte-count marker 0x40000000
NB(k) == <<64, 0, 0, k>>
\* an fVersion
Ver == <<0, 1>>
\* a 32-bit big-endian k < 256
BE32(k) == <<0, 0, 0, k>>
NewTag == <<255, 255, 255, 255>>

RECURSIVE Flatten(_)
Flatten(evs) == IF evs = <<>> THEN <<>> ELSE Head(evs) \o Flatten(Tail(evs))

RECURSIVE Seqs(_, _)
\* all byte sequences of length n over the set B
Seqs(B, n) == IF n = 0 THEN {<<>>}
              ELSE {<<b>> \o s : b \in B, s \in Seqs(B, n - 1)}

PrimBytes == {0, 42, 128, 255}
WideBytes == {0, 128, 255}

Int32Events == {<<0, 0, 0, 42>>, <<0, 0, 0, 255>>, <<255, 255, 255, 214>>,
                <<0, 0, 42>>, <<0, 0, 0, 42, 9>>}

NBytesVersionEvents ==
    {NB(k) \o Ver \o <<7>> : k \in 0..4}
      \cup {BE32(3) \o Ver \o <<7>>, <<192, 0, 0, 3>> \o Ver \o <<7>>,
            NB(3) \o Ver, <<64, 0>>}

ObjectHeaderEvents ==
    {NB(k) \o BE32(1) \o <<7>> : k \in {1, 4, 5, 6}}
      \cup {NB(k) \o NewTag \o <<65, 0, 7>> : k \in {5, 7}}
      \cup {NB(7) \o NewTag \o <<65, 66, 7>>, BE32(5) \o BE32(1) \o <<7>>,
            <<255, 0, 0, 5>> \o BE32(1) \o <<7>>}

TStringEvents == {<<3, 97, 98, 99>>, <<0>>, <<2, 97>>, <<255, 0, 0, 0, 1, 97>>,
                  <<255, 255, 255, 255, 255>>, <<9, 97>>}

GroupEvents ==
    {<<5>> \o NB(k) \o Ver \o <<1, 97>> : k \in {2, 4, 6}}
      \cup {<<5>> \o NB(4) \o Ver \o <<0>>, <<5>> \o BE32(4) \o Ver \o <<1, 97>>}

\* ObjectHeaderReader(NBytesVersionReader(GroupReader(uint8_t, EmptyReader)))
NestedEvents ==
    {NB(k) \o BE32(1) \o NB(j) \o Ver \o <<7>> : k \in {10, 11, 12}, j \in {2, 3}}

ObjectEvents ==
    {NB(k) \o Ver \o <<7, 1, 2>> : k \in {0, 5, 9}}
      \cup {BE32(5) \o Ver \o <<7, 1, 2>>, NB(5) \o Ver \o <<7, 1>>}

STLSeqEvents ==
    {NB(k) \o Ver \o BE32(n) \o <<7, 8>> : k \in {6, 8}, n \in {1, 2, 3}}
      \cup {NB(6) \o Ver \o BE32(0), NB(6) \o Ver \o <<255, 255, 255, 255>>,
            BE32(6) \o Ver \o BE32(0), NB(40) \o Ver \o <<0, 1, 0, 0, 7>>}

SeqInt32Events == {BE32(2) \o BE32(7) \o BE32(8), BE32(0), BE32(1) \o BE32(7)}

CArrayEvents ==
    {NB(k) \o Ver \o <<7, 8>> : k \in {2, 4, 5}}
      \cup {NB(4) \o Ver \o <<7>>, BE32(4) \o Ver \o <<7, 8>>}

\* STLMapReader(with_header, Int16Reader, FloatReader) of the proxy variant
FloatMapEvents ==
    {NB(12) \o Ver \o BE32(1) \o <<0, 42>> \o <<64, 160, 0, 0>>,
     NB(12) \o Ver \o BE32(1) \o <<0, 1>> \o <<0, 0, 160, 64>>,
     NB(18) \o Ver \o BE32(2) \o <<0, 1, 63, 128, 0, 0>> \o <<255, 255, 192, 0, 0, 0>>,
     NB(6) \o Ver \o BE32(0),
     BE32(6) \o Ver \o BE32(0)}

FloatBytes == {0, 64, 79, 160, 192}
DoubleBytes == {0, 64}

TArrayEvents ==
    {BE32(0), BE32(1) \o <<0, 7>>, BE32(2) \o <<0, 7, 255, 254>>,
     BE32(2) \o <<0, 7>>, <<255, 255, 255, 255>>, <<0, 0>>}

STLStringEvents ==
    {NB(5) \o Ver \o <<2, 97, 98>>, NB(3) \o Ver \o <<0>>,
     NB(9) \o Ver \o <<255, 0, 0, 0, 1, 97>>, BE32(5) \o Ver \o <<2, 97, 98>>,
     <<2, 97, 98>>}

BareStringEvents ==
    {<<2, 97, 98>>, <<0>>, <<255, 0, 0, 0, 1, 97>>, <<9, 97>>}

\* NBytesVersionReader(STLStringReader(false))
FramedStringEvents ==
    {NB(5) \o Ver \o <<2, 97, 98>>, NB(3) \o Ver \o <<0>>, NB(5) \o Ver \o <<1, 97>>}

\* a TString of n bytes 'a'
Str(n) == (IF n < 255 THEN <<n>> ELSE <<255, 0, 0, n \div 256, n % 256>>)
            \o [k \in 1..n |-> 97]

LongStringEvents == {Str(254), Str(255), Str(256), Str(3), Str(0)}

\* STLMapReader( with_header, is_obj_wise, UInt8Reader, UInt8Reader ) of the
\* uproot variant: fNBytes and 8 bytes, or fNBytes and fVersion, or no header
MapEvents ==
    {NB(k) \o <<0, 1, 0, 0, 0, 0, 0, 0>> \o BE32(2) \o <<1, 10, 2, 20>> : k \in {16, 9}}
      \cup {NB(12) \o <<0, 1, 0, 0, 0, 0, 0, 0>> \o BE32(0),
            NB(10) \o Ver \o BE32(2) \o <<1, 10, 2, 20>>,
            BE32(1) \o <<1, 10>>, BE32(0)}

\* STLSeqReader( with_header, UInt8Reader ) of the uproot variant
SeqEvents ==
    {NB(8) \o Ver \o BE32(2) \o <<7, 8>>, NB(6) \o Ver \o BE32(0),
     NB(6) \o Ver \o BE32(1) \o <<7, 8>>, BE32(2) \o <<7, 8>>, BE32(0)}

\* fVersion, fUniqueID, fBits and sometimes two more bytes
TObjectEvents ==
    {Ver \o BE32(9) \o bits \o tail :
        bits \in {BE32(0), BE32(16), BE32(239), <<255, 255, 255, 255>>,
                  <<255, 255, 255, 239>>, <<16, 0, 0, 0>>},
        tail \in {<<>>, <<0, 5>>}}

\* 0x7FFFFFFF
HalfRange == <<127, 255, 255, 255>>

\* STLSeqReader(false, STLSeqReader(false, EmptyReader))
EmptySeqEvents ==
    {BE32(2) \o HalfRange \o HalfRange, BE32(1) \o HalfRange,
     BE32(1) \o BE32(2), BE32(0)}

\* CStyleArrayReader over UInt8Reader or EmptyReader
FlatEvents == {<<>>, <<1>>, <<1, 2>>}

\* CStyleArrayReader over STLStringReader: two strings after one header, each
\* after its own header, without a header; one string; nothing
FlatStringEvents ==
    {NB(6) \o Ver \o <<1, 97, 1, 98>>,
     NB(4) \o Ver \o <<1, 97>> \o NB(4) \o Ver \o <<1, 98>>,
     <<1, 97, 1, 98>>, NB(4) \o Ver \o <<1, 97>>, <<>>}

\* STLSeqReader( true, STLStringReader( true ) ) of the uproot variant
SeqStringEvents ==
    {NB(16) \o Ver \o BE32(2) \o NB(6) \o Ver \o <<1, 97, 1, 98>>,
     NB(22) \o Ver \o BE32(2) \o NB(4) \o Ver \o <<1, 97>> \o NB(4) \o Ver \o <<1, 98>>,
     NB(6) \o Ver \o BE32(0)}

\* STLMapReader( false, member-wise, STLStringReader( false ),
\* STLStringReader( true ) ) of the uproot variant
MapStringEvents ==
    {NB(18) \o <<0, 1, 0, 0, 0, 0, 0, 0>> \o BE32(2) \o <<1, 97, 0>>
       \o NB(5) \o Ver \o <<1, 98, 0>>,
     NB(12) \o <<0, 1, 0, 0, 0, 0, 0, 0>> \o BE32(0)}

(***************************************************************************)
(* Events written from values: the big-endian ROOT layout of a value of   *)
(* reader r of a tree.  The value of a primitive is its bytes, least      *)
(* significant first; of a TString or STLString its bytes; of a TArray or *)
(* STLSeq the sequence of its elements; of an STLMap the sequence of its  *)
(* <<key, value>> entries; of a Group the tuple of its members.            *)
(***************************************************************************)
\* an integer, most significant byte first
WireInt(v) == [k \in 1..Len(v) |-> v[Len(v) + 1 - k]]

\* a 32-bit count n < 2^16
Wire32(n) == <<0, 0, n \div 256, n % 256>>

\* the length of a string: one byte, or 255 and 32 bits
WireSize(n) == IF n < 255 THEN <<n>> ELSE <<255>> \o Wire32(n)

\* fNBytes (marked, counting fVersion and the payload), fVersion, the payload
Framed(flag, payload) ==
    IF flag
    THEN <<64, 0, (Len(payload) + 2) \div 256, (Len(payload) + 2) % 256>>
           \o Ver \o payload
    ELSE payload

RECURSIVE Serialize(_, _, _)
Serialize(nodes, r, v) ==
    LET node == nodes[r]
    IN  CASE node.kind = "BasicTypeReader" -> WireInt(v)
          [] node.kind = "TStringReader" -> WireSize(Len(v)) \o v
          [] node.kind = "STLStringReader" ->
                Framed(node.flag, WireSize(Len(v)) \o v)
          [] node.kind = "TArrayReader" ->
                Wire32(Len(v)) \o Flatten([k \in 1..Len(v) |-> WireInt(v[k])])
          [] node.kind = "STLSeqReader" ->
                Framed(node.flag,
                       Wire32(Len(v)) \o Flatten([k \in 1..Len(v) |->
                                          Serialize(nodes, node.kids[1], v[k])]))
          [] node.kind = "STLMapReader" ->
                Framed(node.flag,
                       Wire32(Len(v)) \o Flatten([k \in 1..Len(v) |->
                                          Serialize(nodes, node.kids[1], v[k][1])
                                            \o Serialize(nodes, node.kids[2], v[k][2])]))
          [] node.kind = "GroupReader" ->
                Flatten([k \in 1..Len(node.kids) |->
                            Serialize(nodes, node.kids[k], v[k])])

\* the values 7 and -2 of int16_t, 7 and 200 of uint8_t, 42 and -1 of int32_t
S7 == <<7, 0>>
SM2 == <<254, 255>>
B7 == <<7>>
B200 == <<200>>
I42 == <<42, 0, 0, 0>>
IM1 == <<255, 255, 255, 255>>

\* trees and the values their sessions are serialized from
RoundTrips ==
    << [lib |-> "proxy",
        nodes |-> <<STLSeqReader(FALSE, 2), TArrayReader("int16_t")>>,
        values |-> {<<>>, << <<S7, SM2>> >>, << <<>>, <<SM2>> >>}],
       [lib |-> "proxy",
        nodes |-> <<STLMapReader(TRUE, 2, 3), BasicTypeReader("int16_t"),
                    STLStringReader(TRUE)>>,
        values |-> {<<>>, << <<S7, <<97, 98>>>> >>,
                    << <<SM2, <<>>>>, <<S7, <<97>>>> >>}],
       [lib |-> "proxy",
        nodes |-> <<STLMapReader(FALSE, 2, 3), TStringReader,
                    STLSeqReader(TRUE, 4), BasicTypeReader("uint8_t")>>,
        values |-> {<<>>, << <<<<97>>, <<B7, B200>>>> >>,
                    << <<<<>>, <<>>>>, <<<<97, 98>>, <<B200>>>> >>}],
       [lib |-> "uproot",
        nodes |-> <<GroupReader(<<2, 3, 4>>), BasicTypeReader("int32_t"),
                    TStringReader, STLSeqReader(TRUE, 5), BasicTypeReader("uint8_t")>>,
        values |-> {<<I42, <<>>, <<>>>>, <<IM1, <<97, 98>>, <<B7>>>>,
                    <<I42, <<97>>, <<B200, B7>>>>}],
       [lib |-> "uproot",
        nodes |-> <<GroupReader(<<2, 3, 4>>), TArrayReader("int16_t"),
                    STLStringReader(FALSE), STLStringReader(TRUE)>>,
        values |-> {<<<<>>, <<>>, <<>>>>, <<<<S7, SM2>>, <<97>>, <<98, 99>>>>}],
       [lib |-> "uproot",
        nodes |-> <<GroupReader(<<2, 3>>), BasicTypeReader("uint8_t"),
                    STLSeqReader(FALSE, 4), BasicTypeReader("uint8_t")>>,
        values |-> {<<B7, <<>>>>, <<B200, <<B7, B200>>>>}],
       [lib |-> "uproot",
        nodes |-> <<STLMapReaderWise(TRUE, TRUE, 2, 3), BasicTypeReader("uint8_t"),
                    BasicTypeReader("uint8_t")>>,
        values |-> {<<>>, << <<B7, B200>> >>}] >>

Plan(lib, nodes, events, capE) ==
    [lib |-> lib, nodes |-> nodes, events |-> events, capE |-> capE]

\* one primitive reader as the root, over every byte sequence of its width
PrimPlan(T, B, capE) ==
    Plan("proxy", <<BasicTypeReader(T)>>, Seqs(B, TypeSize(T)), capE)

Plans ==
    << Plan("uproot", <<BasicTypeReader("int32_t")>>, Int32Events, 3),
       Plan("proxy", <<BasicTypeReader("int32_t")>>, Int32Events, 3),
       Plan("uproot", <<NBytesVersionReader(2), BasicTypeReader("uint8_t")>>,
            NBytesVersionEvents, 3),
       Plan("uproot", <<ObjectHeaderReader(2), BasicTypeReader("uint8_t")>>,
            ObjectHeaderEvents, 3),
       Plan("uproot", <<TStringReader>>, TStringEvents, 3),
       Plan("uproot", <<GroupReader(<<2, 3>>), BasicTypeReader("uint8_t"),
                        NBytesVersionReader(4), TStringReader>>, GroupEvents, 3),
       Plan("uproot", <<ObjectHeaderReader(2), NBytesVersionReader(3),
                        GroupReader(<<4, 5>>), BasicTypeReader("uint8_t"),
                        EmptyReader>>, NestedEvents, 3),
       Plan("uproot", <<ObjectReader(<<2, 3>>), BasicTypeReader("uint8_t"),
                        BasicTypeReader("uint16_t")>>, ObjectEvents, 3),
       Plan("proxy", <<ObjectReader(<<2, 3>>), BasicTypeReader("uint8_t"),
                       BasicTypeReader("uint16_t")>>, ObjectEvents, 3),
       Plan("proxy", <<STLSeqReader(TRUE, 2), BasicTypeReader("uint8_t")>>,
            STLSeqEvents, 3),
       Plan("proxy", <<STLSeqReader(FALSE, 2), BasicTypeReader("int32_t")>>,
            SeqInt32Events, 3),
       Plan("proxy", <<CArrayReader(TRUE, 2, 2), BasicTypeReader("uint8_t")>>,
            CArrayEvents, 3),
       Plan("proxy", <<CArrayReader(FALSE, 0, 2), BasicTypeReader("uint8_t")>>,
            {<<>>, <<1>>, <<1, 2, 3, 4>>}, 3),
       PrimPlan("uint8_t", PrimBytes, 3),
       PrimPlan("int8_t", PrimBytes, 3),
       PrimPlan("uint16_t", PrimBytes, 2),
       PrimPlan("int16_t", PrimBytes, 2),
       PrimPlan("uint32_t", PrimBytes, 1),
       PrimPlan("int32_t", PrimBytes, 1),
       PrimPlan("uint64_t", WideBytes, 1),
       PrimPlan("int64_t", WideBytes, 1),
       PrimPlan("float", FloatBytes, 1),
       PrimPlan("double", DoubleBytes, 1),
       Plan("proxy", <<STLMapReader(TRUE, 2, 3), BasicTypeReader("int16_t"),
                       BasicTypeReader("float")>>, FloatMapEvents, 2),
       Plan("proxy", <<TArrayReader("int16_t")>>, TArrayEvents, 2),
       Plan("proxy", <<STLStringReader(TRUE)>>, STLStringEvents, 2),
       Plan("proxy", <<STLStringReader(FALSE)>>, BareStringEvents, 2),
       Plan("uproot", <<NBytesVersionReader(2), STLStringReader(FALSE)>>,
            FramedStringEvents, 2),
       Plan("proxy", <<TStringReader>>, LongStringEvents, 2),
       Plan("uproot", <<STLMapReaderWise(TRUE, TRUE, 2, 3), BasicTypeReader("uint8_t"),
                        BasicTypeReader("uint8_t")>>, MapEvents, 2),
       Plan("uproot", <<STLMapReaderWise(FALSE, TRUE, 2, 3), BasicTypeReader("uint8_t"),
                        BasicTypeReader("uint8_t")>>, MapEvents, 2),
       Plan("uproot", <<STLMapReaderWise(TRUE, FALSE, 2, 3), BasicTypeReader("uint8_t"),
                        BasicTypeReader("uint8_t")>>, MapEvents, 2),
       Plan("uproot", <<STLSeqReader(TRUE, 2), BasicTypeReader("uint8_t")>>,
            SeqEvents, 2),
       Plan("uproot", <<STLSeqReader(FALSE, 2), BasicTypeReader("uint8_t")>>,
            SeqEvents, 2),
       Plan("proxy", <<TObjectReader>>, TObjectEvents, 2),
       Plan("uproot", <<TObjectReaderKeep(TRUE)>>, TObjectEvents, 2),
       Plan("uproot", <<TObjectReaderKeep(FALSE)>>, TObjectEvents, 2),
       Plan("proxy", <<STLSeqReader(FALSE, 2), STLSeqReader(FALSE, 3), EmptyReader>>,
            EmptySeqEvents, 2),
       Plan("uproot", <<CStyleArrayReader(2, 2), BasicTypeReader("uint8_t")>>,
            FlatEvents, 2),
       Plan("uproot", <<CStyleArrayReader(2, 2), STLStringReader(TRUE)>>,
            FlatStringEvents, 2),
       Plan("uproot", <<CStyleArrayReader(2, 2), STLStringReader(FALSE)>>,
            FlatStringEvents, 2),
       Plan("uproot", <<CStyleArrayReader(0, 2), BasicTypeReader("uint8_t")>>,
            FlatEvents, 3),
       Plan("uproot", <<CStyleArrayReader(0, 2), STLStringReader(TRUE)>>,
            FlatStringEvents, 2),
       Plan("uproot", <<CStyleArrayReader(0, 2), EmptyReader>>, FlatEvents, 2),
       Plan("uproot", <<STLSeqReader(TRUE, 2), STLStringReader(TRUE)>>,
            SeqStringEvents, 2),
       Plan("uproot", <<STLMapReaderWise(FALSE, FALSE, 2, 3), STLStringReader(FALSE),
                        STLStringReader(TRUE)>>, MapStringEvents, 2) >>
      \o [k \in 1..Len(RoundTrips) |->
            Plan(RoundTrips[k].lib, RoundTrips[k].nodes,
                 {Serialize(RoundTrips[k].nodes, 1, v) : v \in RoundTrips[k].values}, 2)]

(***************************************************************************)
(* State.                                                                  *)
(***************************************************************************)
VARIABLES
    plan,       \* index in Plans of the reader tree and its library variant
    data,       \* the byte blob
    offsets,    \* the event-offset table, E + 1 entries
    cursor,     \* BinaryBuffer::m_cursor, as an offset from the blob's start
    i_evt,      \* py_read_data's loop variable
    start_pos,  \* py_read_data's start_pos of the event being read
    pc,         \* py_read_data's position: "loop" or "reading"
    stack,      \* the frames of the reads in progress, innermost last
    cols,       \* per reader: its m_data and m_offsets vectors
    status,     \* "running", "returned", "error" (an exception left
                \* py_read_data) or "crashed" (a fault outside the blob)
    err,        \* the message of the exception
    output,     \* what py_read_data returned
    rootCalls,  \* history: per invocation of the root's read, its event and
                \* the cursor before it and after it (-1 until it returns)
    regions,    \* history: the reads of the framing and container readers
                \* that returned normally
    done        \* history: per reader, the number of its reads that returned

vars == <<plan, data, offsets, cursor, i_evt, start_pos, pc, stack, cols,
          status, err, output, rootCalls, regions, done>>

Nodes == Plans[plan].nodes
Lib == Plans[plan].lib
\* BinaryBuffer::entries()
entries == Len(offsets) - 1
BlobLen == Len(data)

(***************************************************************************)
(* Memory.  A byte inside the blob is the blob's; a byte at most          *)
(* MaxOverrun past its end is whatever the process holds there, or the    *)
(* access faults; farther out the access faults.                           *)
(***************************************************************************)
GarbageBytes == {0, 255}

MemAt(p) == IF p < BlobLen THEN {data[p + 1]}
            ELSE IF p < BlobLen + MaxOverrun THEN GarbageBytes ELSE {}

RECURSIVE Loads(_, _)
\* the contents n bytes at position c can be read to have, in address order
Loads(c, n) == IF n = 0 THEN {<<>>}
               ELSE IF c + n <= BlobLen THEN {SubSeq(data, c + 1, c + n)}
               ELSE {Append(s, b) : s \in Loads(c, n - 1), b \in MemAt(c + n - 1)}

Outcome(st, e, cur, val) == [st |-> st, err |-> e, cur |-> cur, val |-> val]

\* the positions at which a byte-by-byte read of n bytes from c can fault
Faults(c, n) ==
    {Outcome("crashed", "", p, <<>>) :
        p \in {q \in c..(c + n - 1) : q >= BlobLen /\ q <= BlobLen + MaxOverrun}}

(***************************************************************************)
(* BinaryBuffer.                                                           *)
(***************************************************************************)
bswap16(v) == <<v[2], v[1]>>
bswap32(v) == <<v[4], v[3], v[2], v[1]>>
bswap64(v) == <<v[8], v[7], v[6], v[5], v[4], v[3], v[2], v[1]>>

\* a switch whose case 8 returns the value as loaded
ToHost_case8Unswapped(n, value) ==
    CASE n = 1 -> value
      [] n = 2 -> bswap16(value)
      [] n = 4 -> bswap32(value)
      [] n = 8 -> value

\* the switch of BinaryBuffer::read<T> on sizeof(T)
ToHost(n, value) ==
    CASE n = 1 -> value
      [] n = 2 -> bswap16(value)
      [] n = 4 -> bswap32(value)
      [] n = 8 -> bswap64(value)

(***************************************************************************)
(* The casts of read<T>:  (const T)bswapN( (uintN_t)value ).  For an       *)
(* integer T they keep the object representation.  For float and double   *)
(* they are conversions of the number: (uintN_t)value truncates toward    *)
(* zero and is undefined when the truncated number is not a uintN_t, and  *)
(* (T)u rounds to the nearest T, ties to even.  Bit sequences are least   *)
(* significant bit first.                                                  *)
(***************************************************************************)
RECURSIVE Pow2(_)
Pow2(k) == IF k = 0 THEN 1 ELSE 2 * Pow2(k - 1)

\* the bits of a value
Bits(v) == [k \in 1..(8 * Len(v)) |->
               (v[((k - 1) \div 8) + 1] \div Pow2((k - 1) % 8)) % 2]

RECURSIVE BitSum(_, _, _)
\* the number whose bits are b[from + 1], ..., b[from + k]
BitSum(b, from, k) ==
    IF k = 0 THEN 0 ELSE BitSum(b, from, k - 1) + b[from + k] * Pow2(k - 1)

\* the value whose bits are b
Bytes(b) == [j \in 1..(Len(b) \div 8) |-> BitSum(b, 8 * (j - 1), 8)]

\* b + 1 modulo 2^Len(b)
Inc(b) == [k \in 1..Len(b) |->
             IF \A j \in 1..(k - 1) : b[j] = 1 THEN 1 - b[k] ELSE b[k]]

\* -b modulo 2^Len(b)
Neg(b) == Inc([k \in 1..Len(b) |-> 1 - b[k]])

MantBits(T) == IF T = "float" THEN 23 ELSE 52
ExpBits(T) == IF T = "float" THEN 8 ELSE 11
Bias(T) == Pow2(ExpBits(T) - 1) - 1

\* what the x86-64 and arm64 builds leave in a uintN_t converted from a
\* floating-point number that is no uintN_t: 0, all ones, or the top bit
OutOfRange(W) == {[k \in 1..W |-> 0], [k \in 1..W |-> 1],
                  [k \in 1..W |-> IF k = W THEN 1 ELSE 0]}

\* (uintN_t)value for value of type T: the bits it can have
FloatToUInt(T, v) ==
    LET b == Bits(v)
        W == Len(b)
        mb == MantBits(T)
        e == BitSum(b, mb, ExpBits(T))
        sh == e - Bias(T) - mb
        sig == [k \in 1..(mb + 1) |-> IF k = mb + 1 THEN 1 ELSE b[k]]
        mag == [k \in 1..W |->
                  IF k - sh >= 1 /\ k - sh <= mb + 1 THEN sig[k - sh] ELSE 0]
    IN  IF e < Bias(T) THEN {[k \in 1..W |-> 0]}
        ELSE IF e = Pow2(ExpBits(T)) - 1 \/ e - Bias(T) >= W THEN OutOfRange(W)
        ELSE IF b[W] = 1 THEN {[k \in 1..W |-> 0], Neg(mag)}
        ELSE {mag}

\* (T)u for u a uintN_t of bits b: the value
UIntToFloat(T, b) ==
    LET W == Len(b)
        mb == MantBits(T)
        top == {k \in 1..W : b[k] = 1}
    IN  IF top = {} THEN Bytes([k \in 1..W |-> 0])
        ELSE LET p == CHOOSE k \in top : \A j \in top : j <= k
                 s == p - (mb + 1)
                 q == [k \in 1..(mb + 1) |-> IF k + s >= 1 THEN b[k + s] ELSE 0]
                 up == /\ s >= 1
                       /\ b[s] = 1
                       /\ q[1] = 1 \/ \E j \in 1..(s - 1) : b[j] = 1
                 carry == up /\ \A k \in 1..(mb + 1) : q[k] = 1
                 r == IF up THEN Inc(q) ELSE q
                 e == Bias(T) + (p - 1) + (IF carry THEN 1 ELSE 0)
             IN  Bytes([k \in 1..W |->
                          IF k <= mb THEN (IF carry THEN 0 ELSE r[k])
                          ELSE IF k < W THEN (e \div Pow2(k - mb - 1)) % 2
                          ELSE 0])

\* the values  (const T)bswapN( (uintN_t)value )  can have
Convert(T, value) ==
    IF IsFloatType(T)
    THEN {UIntToFloat(T, Bits(ToHost(Len(value), Bytes(u)))) : u \in FloatToUInt(T, value)}
    ELSE {ToHost(Len(value), value)}

\* BinaryBuffer::read<T>() at cursor c for a type T given by name
read_T(c, T) ==
    {Outcome("ok", "", c + TypeSize(T), w) :
        w \in UNION {Convert(T, value) : value \in Loads(c, TypeSize(T))}}
      \cup (IF c + TypeSize(T) > BlobLen THEN {Outcome("crashed", "", c, <<>>)} ELSE {})

\* BinaryBuffer::read<T>() at cursor c with sizeof(T) = n: the value is loaded
\* from the n bytes at the cursor, the cursor advances, the value is swapped
read(c, n) ==
    {Outcome("ok", "", c + n, ToHost(n, value)) : value \in Loads(c, n)}
      \cup (IF c + n > BlobLen THEN {Outcome("crashed", "", c, <<>>)} ELSE {})

read_fVersion(c) == read(c, 2)

\* a read_fNBytes that returns the word with its marker bit
read_fNBytes_markerKept(c) ==
    { IF o.st # "ok" THEN o
      ELSE LET byte_count == U32(o.val)
           IN  IF ~HasBit(byte_count, kByteCountMask)
               THEN Outcome("error", "Invalid byte count", o.cur, byte_count)
               ELSE Outcome("ok", "", o.cur, byte_count)
      : o \in read(c, 4) }

read_fNBytes(c) ==
    { IF o.st # "ok" THEN o
      ELSE LET byte_count == U32(o.val)
           IN  IF ~HasBit(byte_count, kByteCountMask)
               THEN Outcome("error", "Invalid byte count", o.cur, byte_count)
               ELSE Outcome("ok", "", o.cur, ClearBit(byte_count, kByteCountMask))
      : o \in read(c, 4) }

RECURSIVE read_null_terminated_string(_)
\* the scan for the terminating zero from c; val is unused
read_null_terminated_string(c) ==
    IF c < BlobLen
    THEN IF data[c + 1] = 0 THEN {Outcome("ok", "", c + 1, <<>>)}
         ELSE read_null_terminated_string(c + 1)
    ELSE {Outcome("crashed", "", c, <<>>)}
           \cup (IF c < BlobLen + MaxOverrun
                 THEN {Outcome("ok", "", c + 1, <<>>)}
                        \cup read_null_terminated_string(c + 1)
                 ELSE {})

\* buffer.read_fNBytes(); buffer.read_fVersion(); val is the fNBytes read
Header(c) ==
    UNION { IF o.st # "ok" THEN {o}
            ELSE {[v EXCEPT !.val = o.val] : v \in read_fVersion(o.cur)}
            : o \in read_fNBytes(c) }

\* BinaryBuffer::skip( n ) and skip_fVersion() of the uproot variant: the
\* cursor advances and no byte is read
skip(c, n) == {Outcome("ok", "", c + n, <<>>)}

(***************************************************************************)
(* Sessions: a reader tree, the bytes of up to MaxEvents events and the   *)
(* offset table of their boundaries, the first inner boundary moved by    *)
(* skew bytes (the table stays non-decreasing, from 0 to the blob length).*)
(***************************************************************************)
RECURSIVE Boundary(_, _)
Boundary(evs, k) == IF k = 0 THEN 0 ELSE Boundary(evs, k - 1) + Len(evs[k])

Table(evs, skew) ==
    [k \in 1..(Len(evs) + 1) |->
        IF k = 2 /\ Len(evs) >= 2 THEN Boundary(evs, 1) + skew
        ELSE Boundary(evs, k - 1)]

Min(a, b) == IF a < b THEN a ELSE b

NoFrames == <<>>

\* nothing returned yet by read_data call number session on the reader tree;
\* history: prev is what the call before it returned and first the vectors of
\* the readers when it returned
NoOutput(session, prev, first) ==
    [set |-> FALSE, val |-> <<>>, session |-> session, prev |-> prev, first |-> first]

\* data is m_data (m_unique_id of a TObjectReader), offsets is m_offsets
\* (m_pidf_offsets), bits and pidf are m_bits and m_pidf
InitCols(nodes) ==
    [r \in 1..Len(nodes) |->
        [data |-> <<>>,
         offsets |-> IF HasOffsets(nodes[r].kind) \/ nodes[r].T = "vectors"
                     THEN <<NInt(0)>> ELSE <<>>,
         bits |-> <<>>,
         pidf |-> <<>>]]

Init ==
    \E p \in 1..Len(Plans) :
    \E E \in 0..Min(MaxEvents, Plans[p].capE) :
    \E evs \in [1..E -> Plans[p].events] :
    \E skew \in {-1, 0, 1} :
        /\ E < 2 => skew = 0
        /\ E >= 2 => /\ Len(evs[1]) + skew >= 0
                     /\ skew <= Len(evs[2])
        /\ plan = p
        /\ data = Flatten(evs)
        /\ offsets = Table(evs, skew)
        /\ cursor = 0
        /\ i_evt = 0
        /\ start_pos = 0
        /\ pc = "loop"
        /\ stack = NoFrames
        /\ cols = InitCols(Plans[p].nodes)
        /\ status = "running"
        /\ err = ""
        /\ output = NoOutput(1, <<>>, <<>>)
        /\ rootCalls = <<>>
        /\ regions = <<>>
        /\ done = [r \in 1..Len(Plans[p].nodes) |-> NInt(0)]

(***************************************************************************)
(* Frames.  K is the fNBytes read, aft the cursor just after fNBytes,     *)
(* mark the cursor where the child starts (start_pos), endp the end_pos   *)
(* computed, n the fSize or flat_size of a loop and i its counter.        *)
(* History kept with a frame: hdr, whether the read consumed a header;    *)
(* from, the cursor when the read began; len, the cursor where the length *)
(* field of a container began; inv, the children whose read it invoked,   *)
(* in order; d0, how many reads each child had completed when it began.   *)
(* ret is the count a read( buffer, count ) or read( buffer, end_pos ) of  *)
(* a child returned; scan is the index of the entry of the offset table   *)
(* that CStyleArrayReader::read took as the end of the payload.           *)
(***************************************************************************)
Frame(rid) ==
    [rid |-> rid, pc |-> "start", i |-> 0, K |-> NInt(0), aft |-> 0,
     mark |-> 0, endp |-> NInt(0), n |-> NInt(0),
     hdr |-> FALSE, from |-> 0, len |-> 0, inv |-> <<>>, d0 |-> <<>>,
     ret |-> NInt(0), scan |-> 0]

\* the reads the children of reader rid have completed
KidsDone(rid) == [k \in 1..Len(Nodes[rid].kids) |-> done[Nodes[rid].kids[k]]]

Top == stack[Len(stack)]
TopNode == Nodes[Top.rid]
Rest == SubSeq(stack, 1, Len(stack) - 1)

At(kind, at) ==
    /\ status = "running"
    /\ stack # <<>>
    /\ TopNode.kind = kind
    /\ Top.pc = at

\* the top frame is at the entry of read( buffer ) of a reader of this kind,
\* or at the entry of its read_body( buffer ), which is read( buffer ) less the
\* header
AtEntry(kind) ==
    /\ status = "running"
    /\ stack # <<>>
    /\ TopNode.kind = kind
    /\ Top.pc \in {"start", "read_body"}

\* the top frame becomes f and read( buffer, count ) (mode "count") or
\* read( buffer, end_pos ) (mode "end_pos") of the STL reader k is entered
CallBulk(f, k, mode, count, end_pos) ==
    /\ stack' = Append(Append(Rest, [f EXCEPT !.inv = Append(@, k)]),
                       [Frame(k) EXCEPT !.pc = mode, !.n = count, !.endp = end_pos])
    /\ UNCHANGED done

\* read( buffer, count ) or read( buffer, end_pos ) of the top frame returns c
ReturnCount(c) ==
    /\ stack' = Append(SubSeq(stack, 1, Len(stack) - 2),
                       [stack[Len(stack) - 1] EXCEPT !.ret = c])
    /\ UNCHANGED done

\* the top frame becomes f and the read of reader k is entered
Call(f, k) ==
    /\ stack' = Append(Append(Rest, [f EXCEPT !.inv = Append(@, k)]), Frame(k))
    /\ UNCHANGED done

\* the read of the top frame returns
Return ==
    /\ stack' = Rest
    /\ done' = [done EXCEPT ![Top.rid] = NAdd(@, NInt(1))]

\* the top frame becomes f
Step(f) ==
    /\ stack' = Append(Rest, f)
    /\ UNCHANGED done

\* an exception or a fault leaves every read in progress and py_read_data
Abort(o) ==
    /\ cursor' = o.cur
    /\ status' = o.st
    /\ err' = o.err
    /\ stack' = NoFrames
    /\ UNCHANGED done

Throw(msg) == Abort(Outcome("error", msg, cursor, <<>>))

\* history: the read of frame f returns with the cursor at fin; reads is the
\* number of reads each child completed meanwhile
Region(f, fin) ==
    [rid |-> f.rid, kind |-> Nodes[f.rid].kind, K |-> f.K, aft |-> f.aft,
     mark |-> f.mark, fin |-> fin, hdr |-> f.hdr, from |-> f.from,
     len |-> f.len, n |-> f.n, inv |-> f.inv,
     reads |-> [k \in 1..Len(f.d0) |-> NSub(KidsDone(f.rid)[k], f.d0[k])]]

(***************************************************************************)
(* The driver.                                                             *)
(***************************************************************************)
RECURSIVE Data(_)
\* reader->data()
Data(r) ==
    LET node == Nodes[r]
    IN  CASE node.kind = "BasicTypeReader" -> cols[r].data
          [] node.kind \in {"TStringReader", "TArrayReader", "STLStringReader"} ->
                <<cols[r].offsets, cols[r].data>>
          [] node.kind = "EmptyReader" -> <<"None">>
          [] node.kind = "TObjectReader" ->
                IF node.T = "vectors" /\ node.flag
                THEN <<cols[r].data, cols[r].bits, cols[r].pidf, cols[r].offsets>>
                ELSE <<"None">>
          [] node.kind = "STLMapReader" ->
                <<cols[r].offsets, Data(node.kids[1]), Data(node.kids[2])>>
          [] node.kind \in {"NBytesVersionReader", "ObjectHeaderReader",
                            "CArrayReader"} -> Data(node.kids[1])
          [] node.kind \in {"GroupReader", "ObjectReader"} ->
                [k \in 1..Len(node.kids) |-> Data(node.kids[k])]
          [] node.kind = "STLSeqReader" ->
                <<cols[r].offsets, Data(node.kids[1])>>
          [] node.kind = "CStyleArrayReader" ->
                IF node.n > 0 THEN Data(node.kids[1])
                ELSE <<cols[r].offsets, Data(node.kids[1])>>

\* history: the root's read in progress has returned
RootReturned == [rootCalls EXCEPT ![Len(rootCalls)].fin = cursor]

\* the loop head and the call reader->read( buffer ) of event i_evt
py_read_data_call ==
    /\ status = "running"
    /\ pc = "loop"
    /\ i_evt < entries
    /\ start_pos' = cursor
    /\ stack' = <<Frame(1)>>
    /\ pc' = "reading"
    /\ rootCalls' = Append(rootCalls, [evt |-> i_evt, from |-> cursor, fin |-> -1])
    /\ UNCHANGED <<plan, data, offsets, cursor, i_evt, cols, status, err,
                   output, regions, done>>

\* uproot variant: the length check after the root's read, then i_evt++
py_read_data_check ==
    /\ status = "running"
    /\ pc = "reading"
    /\ stack = NoFrames
    /\ Lib = "uproot"
    /\ LET consumed == NInt(cursor - start_pos)
           expected == Wrap32(NInt(offsets[i_evt + 2] - offsets[i_evt + 1]))
       IN  IF consumed # expected
           THEN /\ status' = "error"
                /\ err' = "py_read_data: Invalid read length"
                /\ UNCHANGED <<i_evt, pc>>
           ELSE /\ i_evt' = i_evt + 1
                /\ pc' = "loop"
                /\ UNCHANGED <<status, err>>
    /\ rootCalls' = RootReturned
    /\ UNCHANGED <<plan, data, offsets, cursor, start_pos, stack, cols, output,
                   regions, done>>

\* proxy variant: i_evt++ after the root's read
py_read_data_next ==
    /\ status = "running"
    /\ pc = "reading"
    /\ stack = NoFrames
    /\ Lib = "proxy"
    /\ i_evt' = i_evt + 1
    /\ pc' = "loop"
    /\ rootCalls' = RootReturned
    /\ UNCHANGED <<plan, data, offsets, cursor, start_pos, stack, cols, status,
                   err, output, regions, done>>

\* a driver that returns reader->data() after an error as well
py_read_data_return_afterError ==
    /\ \/ status = "running" /\ pc = "loop" /\ i_evt >= entries
       \/ status = "error" /\ ~output.set
    /\ status' = status
    /\ output' = [output EXCEPT !.set = TRUE, !.val = Data(1)]
    /\ UNCHANGED <<plan, data, offsets, cursor, i_evt, start_pos, pc, stack,
                   cols, err, rootCalls, regions, done>>

\* return reader->data() with a data() that moves the vectors out of the readers
py_read_data_return_moved ==
    /\ status = "running"
    /\ pc = "loop"
    /\ i_evt >= entries
    /\ status' = "returned"
    /\ output' = [output EXCEPT !.set = TRUE, !.val = Data(1)]
    /\ cols' = InitCols(Nodes)
    /\ UNCHANGED <<plan, data, offsets, cursor, i_evt, start_pos, pc, stack,
                   err, rootCalls, regions, done>>

\* return reader->data()
py_read_data_return ==
    /\ status = "running"
    /\ pc = "loop"
    /\ i_evt >= entries
    /\ status' = "returned"
    /\ output' = [output EXCEPT !.set = TRUE, !.val = Data(1)]
    /\ UNCHANGED <<plan, data, offsets, cursor, i_evt, start_pos, pc, stack,
                   cols, err, rootCalls, regions, done>>

\* the host calls read_data once more with the reader tree of the call that
\* returned (proxy variant): over the same blob and offset table, or over no
\* event, which is one more reader->data()
py_read_data_again ==
    /\ status = "returned"
    /\ Lib = "proxy"
    /\ output.session = 1
    /\ \/ UNCHANGED <<data, offsets>>
       \/ data' = <<>> /\ offsets' = <<0>>
    /\ cursor' = 0
    /\ i_evt' = 0
    /\ start_pos' = 0
    /\ pc' = "loop"
    /\ status' = "running"
    /\ output' = NoOutput(2, output.val, cols)
    /\ rootCalls' = <<>>
    /\ regions' = <<>>
    /\ UNCHANGED <<plan, stack, cols, err, done>>

(***************************************************************************)
(* Leaf readers.                                                           *)
(***************************************************************************)
\* the value read is put before the values of m_data, not after them
BasicTypeReader_read_pushFront ==
    /\ At("BasicTypeReader", "start")
    /\ \E o \in read_T(cursor, TopNode.T) :
          IF o.st = "ok"
          THEN /\ cursor' = o.cur
               /\ cols' = [cols EXCEPT ![Top.rid].data = <<o.val>> \o @]
               /\ Return
               /\ UNCHANGED <<status, err>>
          ELSE Abort(o) /\ UNCHANGED cols
    /\ UNCHANGED <<plan, data, offsets, i_evt, start_pos, pc, output, rootCalls,
                   regions>>

\* m_data.push_back( buffer.read<T>() )
BasicTypeReader_read ==
    /\ At("BasicTypeReader", "start")
    /\ \E o \in read_T(cursor, TopNode.T) :
          IF o.st = "ok"
          THEN /\ cursor' = o.cur
               /\ cols' = [cols EXCEPT ![Top.rid].data = Append(@, o.val)]
               /\ Return
               /\ UNCHANGED <<status, err>>
          ELSE Abort(o) /\ UNCHANGED cols
    /\ UNCHANGED <<plan, data, offsets, i_evt, start_pos, pc, output, rootCalls,
                   regions>>

\* the length of a TString without the escape: the byte 255 is the length 255
StringSize_noEscape(c) == {[o EXCEPT !.val = NInt(o.val[1])] : o \in read(c, 1)}

\* the length of a TString: one byte, or 255 and a 32-bit length
StringSize(c) ==
    UNION { IF o.st # "ok" THEN {o}
            ELSE IF o.val = <<255>>
                 THEN {IF w.st # "ok" THEN w ELSE [w EXCEPT !.val = U32(w.val)]
                          : w \in read(o.cur, 4)}
                 ELSE {[o EXCEPT !.val = NInt(o.val[1])]}
            : o \in read(c, 1) }

\* fSize successive read<uint8_t>() from c: val is the bytes read
ReadBytes(c, fSize) ==
    IF IsSmall(fSize) /\ c + Small(fSize) <= BlobLen + MaxOverrun
    THEN {Outcome("ok", "", c + Small(fSize), [k \in 1..Len(s) |-> <<s[k]>>])
             : s \in Loads(c, Small(fSize))}
           \cup Faults(c, Small(fSize))
    ELSE Faults(c, MaxOverrun + BlobLen + 1)

TStringReader_read ==
    /\ At("TStringReader", "start")
    /\ \E o \in UNION { IF z.st # "ok" THEN {z} ELSE ReadBytes(z.cur, z.val)
                        : z \in StringSize(cursor) } :
          IF o.st = "ok"
          THEN /\ cursor' = o.cur
               /\ cols' = [cols EXCEPT
                     ![Top.rid].data = @ \o o.val,
                     ![Top.rid].offsets =
                         Append(@, NInt(Len(cols[Top.rid].data \o o.val)))]
               /\ Return
               /\ UNCHANGED <<status, err>>
          ELSE Abort(o) /\ UNCHANGED cols
    /\ UNCHANGED <<plan, data, offsets, i_evt, start_pos, pc, output, rootCalls,
                   regions>>

EmptyReader_read ==
    /\ At("EmptyReader", "start")
    /\ Return
    /\ UNCHANGED <<plan, data, offsets, cursor, i_evt, start_pos, pc, cols,
                   status, err, output, rootCalls, regions>>

RECURSIVE ReadElems(_, _, _)
\* k successive read<T>() from c: val is the values read
ReadElems(c, T, k) ==
    IF k = 0 THEN {Outcome("ok", "", c, <<>>)}
    ELSE UNION { IF o.st # "ok" THEN {o}
                 ELSE {IF e.st # "ok" THEN e
                       ELSE [e EXCEPT !.val = Append(o.val, e.val)]
                          : e \in read_T(o.cur, T)}
                 : o \in ReadElems(c, T, k - 1) }

\* fSize successive read<T>() from c, for any fSize
Elements(c, T, fSize) ==
    IF fSize[1] = 0 /\ c + fSize[2] * TypeSize(T) <= BlobLen + MaxOverrun
    THEN ReadElems(c, T, fSize[2])
    ELSE Faults(c, MaxOverrun + BlobLen + 1)

\* m_offsets.back() + fSize + 1
NextOffset_plusOne(offs, fSize) == Wrap32(NAdd(NAdd(offs[Len(offs)], fSize), NInt(1)))

\* m_offsets.back() + fSize, as a uint32_t
NextOffset(offs, fSize) == Wrap32(NAdd(offs[Len(offs)], fSize))

\* the optional header of the STL readers and of CArrayReader
OptionalHeader(flag, c) ==
    IF flag THEN Header(c) ELSE {Outcome("ok", "", c, NInt(0))}

\* TArrayReader<T>::read
TArrayReader_read ==
    /\ At("TArrayReader", "start")
    /\ \E z \in read(cursor, 4) :
       \E o \in IF z.st # "ok" THEN {z}
                ELSE Elements(z.cur, TopNode.T, U32(z.val)) :
          IF o.st = "ok"
          THEN /\ cursor' = o.cur
               /\ cols' = [cols EXCEPT
                     ![Top.rid].offsets = Append(@, NextOffset(@, U32(z.val))),
                     ![Top.rid].data = @ \o o.val]
               /\ Return
               /\ UNCHANGED <<status, err>>
          ELSE Abort(o) /\ UNCHANGED cols
    /\ UNCHANGED <<plan, data, offsets, i_evt, start_pos, pc, output, rootCalls,
                   regions>>

\* STLStringReader::read
STLStringReader_read ==
    /\ AtEntry("STLStringReader")
    /\ \E h \in OptionalHeader(TopNode.flag /\ Top.pc = "start", cursor) :
       \E z \in IF h.st # "ok" THEN {h} ELSE StringSize(h.cur) :
       \E o \in IF z.st # "ok" THEN {z} ELSE ReadBytes(z.cur, z.val) :
          IF o.st = "ok"
          THEN /\ cursor' = o.cur
               /\ cols' = [cols EXCEPT
                     ![Top.rid].offsets = Append(@, NextOffset(@, z.val)),
                     ![Top.rid].data = @ \o o.val]
               /\ Return
               /\ UNCHANGED <<status, err>>
          ELSE Abort(o) /\ UNCHANGED cols
    /\ UNCHANGED <<plan, data, offsets, i_evt, start_pos, pc, output, rootCalls,
                   regions>>

\* no byte follows fBits
Pidf_absent(c) == skip(c, 0)

\* the two bytes after fBits when kIsReferenced is set: read, or skipped by
\* the uproot variant without keep_data
Pidf(c) == IF Lib = "uproot" /\ ~TopNode.flag THEN skip(c, 2) ELSE read(c, 2)

\* fVersion, fUniqueID, fBits and the optional pidf of TObjectReader::read;
\* val is <<fUniqueID, fBits, the pidf read>>
TObjectFields(c) ==
    UNION { IF v.st # "ok" THEN {v} ELSE
      UNION { IF u.st # "ok" THEN {u} ELSE
        UNION { IF b.st # "ok" THEN {b}
                ELSE IF (b.val[1] \div kIsReferenced) % 2 = 1
                THEN {IF q.st # "ok" THEN q
                      ELSE [q EXCEPT !.val =
                              <<u.val, b.val, IF q.val = <<>> THEN <<>> ELSE <<q.val>>>>]
                         : q \in Pidf(b.cur)}
                ELSE {[b EXCEPT !.val = <<u.val, b.val, <<>>>>]}
                : b \in read(u.cur, 4) }
        : u \in read(v.cur, 4) }
      : v \in IF Lib = "uproot" THEN skip(c, 2) ELSE read_fVersion(c) }

\* TObjectReader::read
TObjectReader_read ==
    /\ At("TObjectReader", "start")
    /\ \E o \in TObjectFields(cursor) :
          IF o.st = "ok"
          THEN /\ cursor' = o.cur
               /\ cols' = IF Lib = "uproot" /\ TopNode.flag
                          THEN [cols EXCEPT
                                  ![Top.rid].data = Append(@, o.val[1]),
                                  ![Top.rid].bits = Append(@, o.val[2]),
                                  ![Top.rid].pidf = @ \o o.val[3],
                                  ![Top.rid].offsets =
                                      Append(@, NInt(Len(cols[Top.rid].pidf \o o.val[3])))]
                          ELSE cols
               /\ Return
               /\ UNCHANGED <<status, err>>
          ELSE Abort(o) /\ UNCHANGED cols
    /\ UNCHANGED <<plan, data, offsets, i_evt, start_pos, pc, output, rootCalls,
                   regions>>

(***************************************************************************)
(* Framing readers (uproot variant).                                       *)
(***************************************************************************)
\* NBytesVersionReader::read up to the call of the child's read
NBytesVersionReader_read ==
    /\ At("NBytesVersionReader", "start")
    /\ \E o \in Header(cursor) :
          IF o.st = "ok"
          THEN /\ cursor' = o.cur
               /\ Call([Top EXCEPT !.pc = "check", !.K = o.val,
                                   !.aft = o.cur - 2, !.mark = o.cur,
                                   !.endp = NSub(NAdd(NInt(o.cur), o.val), NInt(2)),
                                   !.hdr = TRUE, !.from = cursor,
                                   !.d0 = KidsDone(Top.rid)],
                       TopNode.kids[1])
               /\ UNCHANGED <<status, err>>
          ELSE Abort(o)
    /\ UNCHANGED <<plan, data, offsets, i_evt, start_pos, pc, cols, output,
                   rootCalls, regions>>

\* the test  end_pos - start_pos != fNBytes - 2  of NBytesVersionReader::read:
\* a pointer difference against an unsigned 32-bit difference
NBytesVersionMismatch(f) ==
    NSub(f.endp, NInt(f.mark)) # Wrap32(NSub(f.K, NInt(2)))

\* NBytesVersionReader::read after the child's read
NBytesVersionReader_check ==
    /\ At("NBytesVersionReader", "check")
    /\ IF NBytesVersionMismatch(Top)
       THEN Throw("NBytesVersionReader: Invalid read length") /\ UNCHANGED regions
       ELSE /\ Return
            /\ regions' = Append(regions, Region(Top, cursor))
            /\ UNCHANGED <<cursor, status, err>>
    /\ UNCHANGED <<plan, data, offsets, i_evt, start_pos, pc, cols, output,
                   rootCalls>>

\* an ObjectHeaderReader::read that never reads the class name
ClassName_notRead(o) == {o}

\* the class name of ObjectHeaderReader::read, read when fTag == -1
ClassName(o) ==
    IF o.st = "ok" /\ SignedValue(o.val) = -1
    THEN read_null_terminated_string(o.cur)
    ELSE {o}

\* an end_pos counted from the cursor after the tag
ObjectHeaderEnd_afterTag(aft, nbytes) == NAdd(NInt(aft + 4), nbytes)

\* the value of end_pos in ObjectHeaderReader::read
ObjectHeaderEnd(aft, nbytes) == NAdd(NInt(aft), nbytes)

\* ObjectHeaderReader::read up to the call of the child's read
ObjectHeaderReader_read ==
    /\ At("ObjectHeaderReader", "start")
    /\ \E h \in read_fNBytes(cursor) :
       \E o \in IF h.st # "ok" THEN {h}
                ELSE UNION {ClassName(t) : t \in read(h.cur, 4)} :
          IF o.st = "ok"
          THEN /\ cursor' = o.cur
               /\ Call([Top EXCEPT !.pc = "check", !.K = h.val, !.aft = h.cur,
                                   !.mark = o.cur,
                                   !.endp = ObjectHeaderEnd(h.cur, h.val),
                                   !.hdr = TRUE, !.from = cursor,
                                   !.d0 = KidsDone(Top.rid)],
                       TopNode.kids[1])
               /\ UNCHANGED <<status, err>>
          ELSE Abort(o)
    /\ UNCHANGED <<plan, data, offsets, i_evt, start_pos, pc, cols, output,
                   rootCalls, regions>>

\* ObjectHeaderReader::read after the child's read
ObjectHeaderReader_check ==
    /\ At("ObjectHeaderReader", "check")
    /\ IF NInt(cursor) # Top.endp
       THEN Throw("ObjectHeaderReader: Invalid read length") /\ UNCHANGED regions
       ELSE /\ Return
            /\ regions' = Append(regions, Region(Top, cursor))
            /\ UNCHANGED <<cursor, status, err>>
    /\ UNCHANGED <<plan, data, offsets, i_evt, start_pos, pc, cols, output,
                   rootCalls>>

(***************************************************************************)
(* Composite readers.                                                      *)
(***************************************************************************)
\* the loop over the children taken from the last child to the first
NextChild_backwards ==
    IF Top.i < Len(TopNode.kids)
    THEN Call([Top EXCEPT !.i = @ + 1], TopNode.kids[Len(TopNode.kids) - Top.i])
            /\ UNCHANGED regions
    ELSE /\ Return
         /\ regions' = IF TopNode.kind = "GroupReader" THEN regions
                       ELSE Append(regions, Region(Top, cursor))

\* one iteration of  for ( auto& reader : m_element_readers )
NextChild ==
    IF Top.i < Len(TopNode.kids)
    THEN Call([Top EXCEPT !.i = @ + 1], TopNode.kids[Top.i + 1]) /\ UNCHANGED regions
    ELSE /\ Return
         /\ regions' = IF TopNode.kind = "GroupReader" THEN regions
                       ELSE Append(regions, Region(Top, cursor))

GroupReader_read ==
    /\ At("GroupReader", "start")
    /\ NextChild
    /\ UNCHANGED <<plan, data, offsets, cursor, i_evt, start_pos, pc, cols,
                   status, err, output, rootCalls>>

\* BaseObjectReader::read and ObjectReader::read: the header
ObjectReader_read ==
    /\ At("ObjectReader", "start")
    /\ \E o \in Header(cursor) :
          IF o.st = "ok"
          THEN /\ cursor' = o.cur
               /\ Step([Top EXCEPT !.pc = "body", !.K = o.val,
                                   !.aft = o.cur - 2, !.mark = o.cur,
                                   !.hdr = TRUE, !.from = cursor,
                                   !.d0 = KidsDone(Top.rid)])
               /\ UNCHANGED <<status, err>>
          ELSE Abort(o)
    /\ UNCHANGED <<plan, data, offsets, i_evt, start_pos, pc, cols, output,
                   rootCalls, regions>>

\* BaseObjectReader::read and ObjectReader::read: the loop over the children
ObjectReader_next ==
    /\ At("ObjectReader", "body")
    /\ NextChild
    /\ UNCHANGED <<plan, data, offsets, cursor, i_evt, start_pos, pc, cols,
                   status, err, output, rootCalls>>

\* the iterations i, ..., n - 1 of a loop of reads of EmptyReader kid: none
\* changes anything but the counter (n < 2^31 in the sessions of the model)
EmptyReads(kid) ==
    /\ stack' = Append(Rest, [Top EXCEPT !.i = Small(Top.n)])
    /\ done' = [done EXCEPT ![kid] = NAdd(@, NSub(Top.n, NInt(Top.i)))]

\* one iteration of  for ( auto i = 0; i < n; i++ ) m_element_reader->read( buffer )
NextElement ==
    IF NLt(NInt(Top.i), Top.n)
    THEN /\ IF Nodes[TopNode.kids[1]].kind = "EmptyReader"
            THEN EmptyReads(TopNode.kids[1])
            ELSE Call([Top EXCEPT !.i = @ + 1], TopNode.kids[1])
         /\ UNCHANGED regions
    ELSE /\ Return
         /\ regions' = Append(regions, Region(Top, cursor))

\* m_element_reader->read( buffer, fSize ) of the uproot variant for an element
\* reader that does not override it: fSize times read( buffer )
read_count == NextElement

\* the header STLSeqReader::read consumes: the proxy variant when with_header,
\* the uproot variant always
SeqHeader(flag, c) == IF Lib = "uproot" THEN Header(c) ELSE OptionalHeader(flag, c)

\* STLSeqReader::read: header, fSize, the new offset
STLSeqReader_read ==
    /\ AtEntry("STLSeqReader")
    /\ \E h \in IF Top.pc = "start" THEN SeqHeader(TopNode.flag, cursor)
                ELSE OptionalHeader(FALSE, cursor) :
       \E o \in IF h.st # "ok" THEN {h} ELSE read(h.cur, 4) :
          IF o.st = "ok"
          THEN LET fSize == U32(o.val)
               IN  /\ cursor' = o.cur
                   /\ cols' = [cols EXCEPT ![Top.rid].offsets =
                                 Append(@, NextOffset(@, fSize))]
                   /\ Step([Top EXCEPT !.pc = "body",
                                       !.K = h.val, !.aft = h.cur - 2,
                                       !.mark = h.cur, !.n = fSize,
                                       !.hdr = (h.cur # cursor), !.from = cursor,
                                       !.len = h.cur, !.d0 = KidsDone(Top.rid)])
                   /\ UNCHANGED <<status, err>>
          ELSE Abort(o) /\ UNCHANGED cols
    /\ UNCHANGED <<plan, data, offsets, i_evt, start_pos, pc, output, rootCalls,
                   regions>>

\* STLSeqReader::read, STLSeqReader::read_body: the reads of the elements
STLSeqReader_next ==
    /\ At("STLSeqReader", "body")
    /\ IF Lib = "uproot"
       THEN IF IsSTL(Nodes[TopNode.kids[1]].kind)
            THEN /\ CallBulk([Top EXCEPT !.pc = "done"], TopNode.kids[1],
                             "count", Top.n, NInt(0))
                 /\ UNCHANGED regions
            ELSE read_count
       ELSE NextElement
    /\ UNCHANGED <<plan, data, offsets, cursor, i_evt, start_pos, pc, cols,
                   status, err, output, rootCalls>>

\* STLSeqReader::read_body returns after m_element_reader->read( buffer, fSize )
\* of an STL reader
STLSeqReader_done ==
    /\ At("STLSeqReader", "done")
    /\ Return
    /\ regions' = Append(regions, Region(Top, cursor))
    /\ UNCHANGED <<plan, data, offsets, cursor, i_evt, start_pos, pc, cols,
                   status, err, output, rootCalls>>

\* the header STLMapReader::read consumes: fNBytes and fVersion in the proxy
\* variant when with_header; fNBytes and 8 skipped bytes in the uproot
\* variant, always
MapHeader(flag, c) ==
    IF Lib = "uproot"
    THEN UNION { IF o.st # "ok" THEN {o}
                 ELSE {[v EXCEPT !.val = o.val] : v \in skip(o.cur, 8)}
                 : o \in read_fNBytes(c) }
    ELSE OptionalHeader(flag, c)

\* STLMapReader::read: header, fSize, the new offset
STLMapReader_read ==
    /\ AtEntry("STLMapReader")
    /\ \E h \in IF Top.pc = "start" THEN MapHeader(TopNode.flag, cursor)
                ELSE OptionalHeader(FALSE, cursor) :
       \E o \in IF h.st # "ok" THEN {h} ELSE read(h.cur, 4) :
          IF o.st = "ok"
          THEN LET fSize == U32(o.val)
               IN  /\ cursor' = o.cur
                   /\ cols' = [cols EXCEPT ![Top.rid].offsets =
                                 Append(@, NextOffset(@, fSize))]
                   /\ Step([Top EXCEPT
                               !.pc = IF TopNode.T = "obj_wise" THEN "body" ELSE "keys",
                               !.K = h.val, !.mark = h.cur, !.n = fSize,
                               !.hdr = (h.cur # cursor), !.from = cursor,
                               !.len = h.cur, !.d0 = KidsDone(Top.rid)])
                   /\ UNCHANGED <<status, err>>
          ELSE Abort(o) /\ UNCHANGED cols
    /\ UNCHANGED <<plan, data, offsets, i_evt, start_pos, pc, output, rootCalls,
                   regions>>

\* object-wise: the loop head and m_key_reader->read( buffer )
STLMapReader_next ==
    /\ At("STLMapReader", "body")
    /\ IF NLt(NInt(Top.i), Top.n)
       THEN Call([Top EXCEPT !.pc = "value"], TopNode.kids[1]) /\ UNCHANGED regions
       ELSE /\ Return
            /\ regions' = Append(regions, Region(Top, cursor))
    /\ UNCHANGED <<plan, data, offsets, cursor, i_evt, start_pos, pc, cols,
                   status, err, output, rootCalls>>

\* object-wise, with the key reader read where the value reader is
STLMapReader_value_keyAgain ==
    /\ At("STLMapReader", "value")
    /\ Call([Top EXCEPT !.pc = "body", !.i = @ + 1], TopNode.kids[1])
    /\ UNCHANGED <<plan, data, offsets, cursor, i_evt, start_pos, pc, cols,
                   status, err, output, rootCalls, regions>>

\* object-wise: m_value_reader->read( buffer ) and i++
STLMapReader_value ==
    /\ At("STLMapReader", "value")
    /\ Call([Top EXCEPT !.pc = "body", !.i = @ + 1], TopNode.kids[2])
    /\ UNCHANGED <<plan, data, offsets, cursor, i_evt, start_pos, pc, cols,
                   status, err, output, rootCalls, regions>>

\* member-wise (uproot variant): m_key_reader->read( buffer, fSize )
STLMapReader_keys ==
    /\ At("STLMapReader", "keys")
    /\ IF IsSTL(Nodes[TopNode.kids[1]].kind)
       THEN CallBulk([Top EXCEPT !.pc = "values"], TopNode.kids[1], "count",
                     Top.n, NInt(0))
       ELSE IF NLt(NInt(Top.i), Top.n)
       THEN Call([Top EXCEPT !.i = @ + 1], TopNode.kids[1])
       ELSE Step([Top EXCEPT !.pc = "values", !.i = 0])
    /\ UNCHANGED <<plan, data, offsets, cursor, i_evt, start_pos, pc, cols,
                   status, err, output, rootCalls, regions>>

\* member-wise (uproot variant): m_value_reader->read( buffer, fSize )
STLMapReader_values ==
    /\ At("STLMapReader", "values")
    /\ IF IsSTL(Nodes[TopNode.kids[2]].kind)
       THEN /\ CallBulk([Top EXCEPT !.pc = "done"], TopNode.kids[2], "count",
                        Top.n, NInt(0))
            /\ UNCHANGED regions
       ELSE IF NLt(NInt(Top.i), Top.n)
       THEN Call([Top EXCEPT !.i = @ + 1], TopNode.kids[2]) /\ UNCHANGED regions
       ELSE /\ Return
            /\ regions' = Append(regions, Region(Top, cursor))
    /\ UNCHANGED <<plan, data, offsets, cursor, i_evt, start_pos, pc, cols,
                   status, err, output, rootCalls>>

\* STLMapReader::read_body returns after m_value_reader->read( buffer, fSize )
\* of an STL reader
STLMapReader_done ==
    /\ At("STLMapReader", "done")
    /\ Return
    /\ regions' = Append(regions, Region(Top, cursor))
    /\ UNCHANGED <<plan, data, offsets, cursor, i_evt, start_pos, pc, cols,
                   status, err, output, rootCalls>>

(***************************************************************************)
(* read( buffer, count ) and read( buffer, end_pos ) of the STL readers   *)
(* of the uproot variant, and CStyleArrayReader.                           *)
(***************************************************************************)
AtBulk(at) ==
    /\ status = "running"
    /\ stack # <<>>
    /\ IsSTL(TopNode.kind)
    /\ Top.pc = at

\* the header read( buffer, count ) and read( buffer, end_pos ) consume: one
\* for all the elements, when with_header
BulkHeader(c) ==
    IF ~TopNode.flag THEN OptionalHeader(FALSE, c)
    ELSE IF TopNode.kind = "STLMapReader" THEN MapHeader(TRUE, c)
    ELSE Header(c)

\* the read_body( buffer ) of the reader of the top frame f is entered
CallBody(f) ==
    /\ stack' = Append(Append(Rest, f), [Frame(f.rid) EXCEPT !.pc = "read_body"])
    /\ UNCHANGED done

\* read( buffer, count ) with count >= 0: nothing if count = 0, else the header
STLReader_read_count ==
    /\ AtBulk("count")
    /\ IF Top.n = NInt(0)
       THEN ReturnCount(NInt(0)) /\ UNCHANGED <<cursor, status, err>>
       ELSE \E h \in BulkHeader(cursor) :
               IF h.st = "ok"
               THEN /\ cursor' = h.cur
                    /\ Step([Top EXCEPT !.pc = "bodies", !.from = cursor])
                    /\ UNCHANGED <<status, err>>
               ELSE Abort(h)
    /\ UNCHANGED <<plan, data, offsets, i_evt, start_pos, pc, cols, output,
                   rootCalls, regions>>

\* for ( auto i = 0; i < count; i++ ) { read_body( buffer ); } return count;
STLReader_read_count_body ==
    /\ AtBulk("bodies")
    /\ IF NLt(NInt(Top.i), Top.n)
       THEN CallBody([Top EXCEPT !.i = @ + 1])
       ELSE ReturnCount(Top.n)
    /\ UNCHANGED <<plan, data, offsets, cursor, i_evt, start_pos, pc, cols,
                   status, err, output, rootCalls, regions>>

\* read( buffer, end_pos ): nothing if the cursor is at end_pos, else the header
STLReader_read_end_pos ==
    /\ AtBulk("end_pos")
    /\ IF NInt(cursor) = Top.endp
       THEN ReturnCount(NInt(0)) /\ UNCHANGED <<cursor, status, err>>
       ELSE \E h \in BulkHeader(cursor) :
               IF h.st = "ok"
               THEN /\ cursor' = h.cur
                    /\ Step([Top EXCEPT !.pc = "bodies_end", !.from = cursor])
                    /\ UNCHANGED <<status, err>>
               ELSE Abort(h)
    /\ UNCHANGED <<plan, data, offsets, i_evt, start_pos, pc, cols, output,
                   rootCalls, regions>>

\* while ( buffer.get_cursor() < end_pos ) { read_body( buffer ); cur_count++; }
\* return cur_count;
STLReader_read_end_pos_body ==
    /\ AtBulk("bodies_end")
    /\ IF NLt(NInt(cursor), Top.endp)
       THEN CallBody([Top EXCEPT !.i = @ + 1])
       ELSE ReturnCount(NInt(Top.i))
    /\ UNCHANGED <<plan, data, offsets, cursor, i_evt, start_pos, pc, cols,
                   status, err, output, rootCalls, regions>>

\* the entries of the offset table find_if visits: 0, ..., entries
TableEntries == 0..entries

\* what a read of the uint32_t after the last entry of the offset table can give
GarbageWords == {NInt(0), <<65535, 65535>>}

\* std::find_if over the offset table and *entry_end: the index of the first
\* entry greater than the cursor and its value; when there is none, entry_end
\* is the end of the table and *entry_end reads past it
EntryEnd ==
    LET found == {k \in TableEntries : offsets[k + 1] > cursor}
    IN  IF found # {}
        THEN LET k == CHOOSE j \in found : \A q \in found : j <= q
             IN  {Outcome("ok", "", k, NInt(offsets[k + 1]))}
        ELSE {Outcome("ok", "", entries + 1, w) : w \in GarbageWords}
               \cup {Outcome("crashed", "", cursor, <<>>)}

\* the counter of a loop that runs on without progress, kept modulo CountWidth
CountWidth == 2

\* IElementReader::read( buffer, end_pos ) of a reader that does not override
\* it, one iteration: read( buffer ) and count++ while the cursor is before
\* end_pos.  Reads of an EmptyReader change nothing but the counter.
read_end_pos ==
    IF Nodes[TopNode.kids[1]].kind = "EmptyReader"
    THEN Step([Top EXCEPT !.i = (@ + 1) % CountWidth])
    ELSE Call([Top EXCEPT !.i = @ + 1], TopNode.kids[1])

\* CStyleArrayReader::read: the read of m_flat_size elements, or the end of the
\* payload taken from the offset table
CStyleArrayReader_read ==
    /\ At("CStyleArrayReader", "start")
    /\ LET kid == TopNode.kids[1]
           f == [Top EXCEPT !.from = cursor, !.d0 = KidsDone(Top.rid)]
       IN  IF TopNode.n > 0
           THEN /\ IF IsSTL(Nodes[kid].kind)
                   THEN CallBulk([f EXCEPT !.pc = "done"], kid, "count",
                                 NInt(TopNode.n), NInt(0))
                   ELSE Step([f EXCEPT !.pc = "elems", !.n = NInt(TopNode.n)])
                /\ UNCHANGED <<cursor, status, err>>
           ELSE \E e \in EntryEnd :
                   IF e.st = "ok"
                   THEN /\ IF IsSTL(Nodes[kid].kind)
                           THEN CallBulk([f EXCEPT !.pc = "done", !.endp = e.val,
                                                   !.scan = e.cur],
                                         kid, "end_pos", NInt(0), e.val)
                           ELSE Step([f EXCEPT !.pc = "until", !.endp = e.val,
                                               !.scan = e.cur])
                        /\ UNCHANGED <<cursor, status, err>>
                   ELSE Abort(e)
    /\ UNCHANGED <<plan, data, offsets, i_evt, start_pos, pc, cols, output,
                   rootCalls, regions>>

\* m_element_reader->read( buffer, m_flat_size ) of a reader that does not
\* override it
CStyleArrayReader_next ==
    /\ At("CStyleArrayReader", "elems")
    /\ read_count
    /\ UNCHANGED <<plan, data, offsets, cursor, i_evt, start_pos, pc, cols,
                   status, err, output, rootCalls>>

\* m_element_reader->read( buffer, end_pos ) of a reader that does not override
\* it, and the push of the count it returns
CStyleArrayReader_until ==
    /\ At("CStyleArrayReader", "until")
    /\ IF NLt(NInt(cursor), Top.endp)
       THEN read_end_pos /\ UNCHANGED <<cols, regions>>
       ELSE /\ cols' = [cols EXCEPT ![Top.rid].offsets =
                          Append(@, NextOffset(@, NInt(Top.i)))]
            /\ Return
            /\ regions' = Append(regions, Region([Top EXCEPT !.n = NInt(Top.i)], cursor))
    /\ UNCHANGED <<plan, data, offsets, cursor, i_evt, start_pos, pc, status,
                   err, output, rootCalls>>

\* CStyleArrayReader::read after the read( buffer, count ) or
\* read( buffer, end_pos ) of an STL reader: the push of the count when
\* m_flat_size <= 0
CStyleArrayReader_done ==
    /\ At("CStyleArrayReader", "done")
    /\ cols' = IF TopNode.n > 0 THEN cols
               ELSE [cols EXCEPT ![Top.rid].offsets = Append(@, NextOffset(@, Top.ret))]
    /\ Return
    /\ regions' = Append(regions, Region([Top EXCEPT !.n = Top.ret], cursor))
    /\ UNCHANGED <<plan, data, offsets, cursor, i_evt, start_pos, pc, status,
                   err, output, rootCalls>>

\* CArrayReader::read (proxy variant): the header when is_obj
CArrayReader_read ==
    /\ At("CArrayReader", "start")
    /\ \E o \in OptionalHeader(TopNode.flag, cursor) :
          IF o.st = "ok"
          THEN /\ cursor' = o.cur
               /\ Step([Top EXCEPT !.pc = "body", !.K = o.val,
                                   !.aft = o.cur - 2, !.mark = o.cur,
                                   !.n = NInt(TopNode.n), !.hdr = TopNode.flag,
                                   !.from = cursor, !.len = o.cur,
                                   !.d0 = KidsDone(Top.rid)])
               /\ UNCHANGED <<status, err>>
          ELSE Abort(o)
    /\ UNCHANGED <<plan, data, offsets, i_evt, start_pos, pc, cols, output,
                   rootCalls, regions>>

CArrayReader_next ==
    /\ At("CArrayReader", "body")
    /\ NextElement
    /\ UNCHANGED <<plan, data, offsets, cursor, i_evt, start_pos, pc, cols,
                   status, err, output, rootCalls>>

Next ==
    \/ py_read_data_call
    \/ py_read_data_check
    \/ py_read_data_next
    \/ py_read_data_return
    \/ py_read_data_again
    \/ BasicTypeReader_read
    \/ TStringReader_read
    \/ EmptyReader_read
    \/ NBytesVersionReader_read
    \/ NBytesVersionReader_check
    \/ ObjectHeaderReader_read
    \/ ObjectHeaderReader_check
    \/ GroupReader_read
    \/ ObjectReader_read
    \/ ObjectReader_next
    \/ STLSeqReader_read
    \/ STLSeqReader_next
    \/ CArrayReader_read
    \/ STLSeqReader_done
    \/ STLMapReader_done
    \/ STLReader_read_count
    \/ STLReader_read_count_body
    \/ STLReader_read_end_pos
    \/ STLReader_read_end_pos_body
    \/ CStyleArrayReader_read
    \/ CStyleArrayReader_next
    \/ CStyleArrayReader_until
    \/ CStyleArrayReader_done
    \/ CArrayReader_next
    \/ TArrayReader_read
    \/ STLStringReader_read
    \/ TObjectReader_read
    \/ STLMapReader_read
    \/ STLMapReader_next
    \/ STLMapReader_value
    \/ STLMapReader_keys
    \/ STLMapReader_values

Spec == Init /\ [][Next]_vars

TypeOK ==
    /\ status \in {"running", "returned", "error", "crashed"}
    /\ pc \in {"loop", "reading"}
    /\ cursor \in 0..(BlobLen + MaxOverrun + 8)

(***************************************************************************)
(* The claims.                                                             *)
(***************************************************************************)
\* the bytes event k (from 0) is declared to span: offsets[k+1] - offsets[k]
Declared(k) == offsets[k + 2] - offsets[k + 1]

FramedKinds == {"NBytesVersionReader", "ObjectReader", "STLSeqReader", "CArrayReader"}

RegionsOf(kinds) ==
    {k \in 1..Len(regions) : regions[k].kind \in kinds /\ regions[k].hdr}

\* C1: py_read_data invokes the root's read once per event, in increasing
\* order of the event, and never goes on past an event whose read consumed a
\* number of bytes other than offsets[i+1] - offsets[i]: the session fails
\* with the event-length error at that event.
C1_EventLengthEnforced ==
    /\ \A k \in 1..Len(rootCalls) : rootCalls[k].evt = k - 1
    /\ status = "returned" => Len(rootCalls) = entries
    /\ \A k \in 1..Len(rootCalls) :
          (rootCalls[k].fin >= 0 /\ rootCalls[k].fin - rootCalls[k].from # Declared(k - 1))
             => /\ status = "error"
                /\ err = "py_read_data: Invalid read length"
                /\ i_evt = k - 1
                /\ Len(rootCalls) = k

\* C2: in a session that returned, over a table starting at 0, the cursor
\* after the read of event i is offsets[i+1], and the final cursor is the
\* last offset, the blob's length.
C2_CursorAtOffsets ==
    (status = "returned" /\ offsets[1] = 0)
       => /\ \A k \in 1..Len(rootCalls) : rootCalls[k].fin = offsets[k + 1]
          /\ cursor = offsets[entries + 1]
          /\ cursor = BlobLen

\* C3: an NBytesVersionReader read with fNBytes = K returns normally only when
\* its child left the cursor K - 2 bytes after the end of fVersion.
C3_NBytesVersionExact ==
    \A k \in RegionsOf({"NBytesVersionReader"}) :
        NInt(regions[k].fin - regions[k].mark) = NSub(regions[k].K, NInt(2))

\* C4: in a session that returned, every region opened by an fNBytes = K and
\* an fVersion (NBytesVersion, Object, STL with header, CArray of objects) was
\* consumed exactly: K - 2 bytes lie between the end of fVersion and the end of
\* the reader's read.
C4_FramedRegionsExact ==
    status = "returned"
       => \A k \in RegionsOf(FramedKinds) :
             NSub(NInt(regions[k].fin), NInt(regions[k].mark))
                = NSub(regions[k].K, NInt(2))

\* the frame of the read that a step from a state with At(kind, "start") or
\* At(kind, "check") acts on, as that step leaves it
Acted == stack'[Len(stack)]

\* the 32-bit big-endian word at position c of the blob, as a number
WordAt(c) == <<data[c + 1] * 256 + data[c + 2], data[c + 3] * 256 + data[c + 4]>>

\* the position just after the first zero byte of the blob at or after c
RECURSIVE AfterZero(_)
AfterZero(c) == IF data[c + 1] = 0 THEN c + 1 ELSE AfterZero(c + 1)

HasZeroFrom(c) == \E q \in (c + 1)..BlobLen : data[q] = 0

\* the bytes between fNBytes and the child of an ObjectHeaderReader read whose
\* fNBytes ends at aft: the tag, and the class name when the tag is 0xFFFFFFFF
TagAndName(aft) ==
    IF WordAt(aft) = kNewClassTag THEN AfterZero(aft + 4) - aft ELSE 4

\* an ObjectHeaderReader read whose tag and class name lie inside the blob
HeaderInBlob(aft) ==
    /\ aft + 4 <= BlobLen
    /\ WordAt(aft) = kNewClassTag => HasZeroFrom(aft + 4)

\* C5: an ObjectHeaderReader read with fNBytes = K, once the tag, the class
\* name (present exactly when the tag is 0xFFFFFFFF) and the child are read,
\* returns normally if the cursor is K bytes after the end of fNBytes and
\* otherwise fails with the framing-length error.
C5_ObjectHeaderChecked ==
    [][At("ObjectHeaderReader", "check") =>
          /\ HeaderInBlob(Top.aft) => Top.mark = Top.aft + TagAndName(Top.aft)
          /\ IF NInt(cursor) = NAdd(NInt(Top.aft), Top.K)
             THEN /\ status' = "running"
                  /\ stack' = Rest
                  /\ cursor' = cursor
             ELSE /\ status' = "error"
                  /\ err' = "ObjectHeaderReader: Invalid read length"]_vars

\* an ObjectHeaderReader read has skipped a class name and returned normally
C5_Witness ==
    \E k \in RegionsOf({"ObjectHeaderReader"}) :
        /\ regions[k].mark > regions[k].aft + 4
        /\ regions[k].fin = regions[k].aft + Small(regions[k].K)

\* C6, as stated: the child of an ObjectHeaderReader read that returns
\* normally consumed fNBytes = K bytes.
C6_ChildConsumedK ==
    \A k \in RegionsOf({"ObjectHeaderReader"}) :
        NInt(regions[k].fin - regions[k].mark) = regions[k].K

\* C6, amended: the child of an ObjectHeaderReader read that returns normally
\* consumed K bytes less the 4 bytes of the tag and less the bytes of the class
\* name with its terminating zero, when the tag 0xFFFFFFFF announces one.
C6_ChildConsumedRest ==
    \A k \in RegionsOf({"ObjectHeaderReader"}) :
        LET r == regions[k]
        IN  /\ NInt(r.fin - r.mark) = NSub(r.K, NInt(r.mark - r.aft))
            /\ HeaderInBlob(r.aft) =>
                  NInt(r.fin - r.mark) = NSub(r.K, NInt(TagAndName(r.aft)))

\* an ObjectHeaderReader read returned normally, once with and once without a
\* class name
C6_Witness ==
    /\ \E k \in RegionsOf({"ObjectHeaderReader"}) :
          regions[k].mark = regions[k].aft + 4 /\ regions[k].fin > regions[k].mark
    /\ \E k \in RegionsOf({"ObjectHeaderReader"}) :
          regions[k].mark = regions[k].aft + 6 /\ regions[k].fin > regions[k].mark

\* C7: at every point of a session, whatever the blob holds, the cursor lies
\* within the blob.
C7_CursorInBlob == cursor >= 0 /\ cursor <= BlobLen

\* C8: once an error has occurred at event j the session is over: no read is
\* in progress, none is invoked for a later event, data() is not called and
\* nothing is returned, while the reads of the events before j have returned.
C8_ErrorStopsSession ==
    status = "error" =>
        /\ stack = NoFrames
        /\ ~output.set
        /\ Len(rootCalls) = i_evt + 1
        /\ rootCalls[Len(rootCalls)].evt = i_evt
        /\ \A k \in 1..i_evt : rootCalls[k].fin >= 0
        /\ ~ENABLED Next

\* the session failed on its second event after the first was decoded
C8_Witness ==
    /\ status = "error"
    /\ err = "py_read_data: Invalid read length"
    /\ i_evt = 1
    /\ cols[1].data # <<>>

\* a read that starts by buffer.read_fNBytes() is about to run
AtHeader ==
    /\ status = "running"
    /\ stack # <<>>
    /\ Top.pc = "start"
    /\ \/ TopNode.kind \in {"NBytesVersionReader", "ObjectHeaderReader", "ObjectReader"}
       \/ TopNode.kind \in {"STLSeqReader", "CArrayReader"} /\ TopNode.flag

\* C9: read_fNBytes reads the 32-bit big-endian word w at the cursor and
\* advances the cursor by 4; without the bit 0x40000000 in w it fails with the
\* invalid-framing error, with it the result is w less that bit, all other
\* bits as in w.
C9_ReadNBytes ==
    [][(AtHeader /\ cursor + 4 <= BlobLen) =>
          IF (data[cursor + 1] \div 64) % 2 = 0
          THEN /\ status' = "error"
               /\ err' = "Invalid byte count"
               /\ cursor' = cursor + 4
          ELSE /\ err' # "Invalid byte count"
               /\ status' = "running" =>
                     /\ Acted.K = <<(data[cursor + 1] - 64) * 256 + data[cursor + 2],
                                    data[cursor + 3] * 256 + data[cursor + 4]>>
                     /\ Acted.aft = cursor + 4
                     /\ cursor' >= cursor + 4]_vars

\* an fNBytes with the bit 0x80000000 was read and kept that bit
C9_Witness ==
    \E k \in RegionsOf({"NBytesVersionReader"}) : regions[k].K = <<32768, 3>>

RECURSIVE Horner(_, _)
\* the number whose base-256 digits, most significant first, are the first k of d
Horner(d, k) == IF k = 0 THEN 0 ELSE 256 * Horner(d, k - 1) + d[k]

\* the number that the bytes b, taken big-endian, represent in type T
BigEndianNumber(T, b) ==
    IF IsSignedType(T) /\ b[1] >= 128
    THEN Horner([b EXCEPT ![1] = @ - 256], Len(b))
    ELSE Horner(b, Len(b))

\* that number is one TLC can compute
Computable(T, b) == Len(b) <= 2 \/ (Len(b) = 4 /\ (IsSignedType(T) \/ b[1] < 128))

\* the number a value of type T stands for
NumberOf(T, v) == IF IsSignedType(T) THEN SignedValue(v) ELSE UnsignedValue(v)

ScenarioData == <<0, 0, 0, 42, 0, 0, 0, 255>>

\* C10: a primitive reader of an integer type T reads the sizeof(T) bytes at
\* the cursor as a big-endian number, unsigned or two's complement, advances
\* the cursor by sizeof(T) and appends that number as one new element of its
\* column; Int32Reader over 00 00 00 2A 00 00 00 FF in two events gives [42, 255].
C10_PrimitiveBigEndian ==
    [][/\ (At("BasicTypeReader", "start") /\ ~IsFloatType(TopNode.T)
              /\ cursor + TypeSize(TopNode.T) <= BlobLen) =>
            LET T == TopNode.T
                n == TypeSize(T)
                b == [k \in 1..n |-> data[cursor + k]]
                old == cols[Top.rid].data
                new == cols'[Top.rid].data
                v == new[Len(new)]
            IN  /\ status' = "running"
                /\ cursor' = cursor + n
                /\ Len(new) = Len(old) + 1
                /\ SubSeq(new, 1, Len(old)) = old
                /\ Len(v) = n
                /\ \A k \in 1..n : v[k] = b[n + 1 - k]
                /\ Computable(T, b) => NumberOf(T, v) = BigEndianNumber(T, b)
       /\ (status' = "returned" /\ data = ScenarioData /\ offsets = <<0, 4, 8>>
              /\ Nodes = <<BasicTypeReader("int32_t")>> /\ output.session = 1) =>
            [k \in 1..Len(output'.val) |-> SignedValue(output'.val[k])] = <<42, 255>>
      ]_vars

\* the two events of the scenario were read and returned
C10_Witness ==
    /\ status = "returned"
    /\ data = ScenarioData
    /\ Nodes = <<BasicTypeReader("int32_t")>>
    /\ Len(output.val) = 2

\* the event of the STLMap scenario: fNBytes, fVersion, one entry 42 -> 5.0
FloatMapScenario ==
    NB(12) \o Ver \o BE32(1) \o <<0, 42>> \o <<64, 160, 0, 0>>

\* the float 5.0, bit pattern 0x40A00000, as a value
Float5 == <<0, 0, 160, 64>>

\* C11: a float or double primitive reader appends the value whose IEEE-754
\* bit pattern is the 4 or 8 bytes at the cursor taken big-endian; the
\* STLMapReader(true, Int16Reader, FloatReader) over the scenario's event
\* returns the offsets [0, 1], the keys [42] and the values [5.0].
C11_FloatBigEndian ==
    [][/\ (/\ At("BasicTypeReader", "start")
           /\ IsFloatType(TopNode.T)
           /\ cursor + TypeSize(TopNode.T) <= BlobLen) =>
            LET n == TypeSize(TopNode.T)
                old == cols[Top.rid].data
                new == cols'[Top.rid].data
            IN  /\ status' = "running"
                /\ cursor' = cursor + n
                /\ new = Append(old, [k \in 1..n |-> data[cursor + n + 1 - k]])
       /\ (/\ status' = "returned"
           /\ data = FloatMapScenario
           /\ Nodes = <<STLMapReader(TRUE, 2, 3), BasicTypeReader("int16_t"),
                        BasicTypeReader("float")>>) =>
            /\ output'.val[1] = <<NInt(0), NInt(1)>>
            /\ Len(output'.val[2]) = 1
            /\ SignedValue(output'.val[2][1]) = 42
            /\ output'.val[3] = <<Float5>>
      ]_vars

\* the values the session of a tree of RoundTrips is serialized from, when
\* its table matches: one value per event
Written ==
    IF plan <= Len(Plans) - Len(RoundTrips) THEN {}
    ELSE {vals \in [1..entries -> RoundTrips[plan - (Len(Plans) - Len(RoundTrips))].values] :
            LET evs == [k \in 1..entries |-> Serialize(Nodes, 1, vals[k])]
            IN  data = Flatten(evs) /\ offsets = Table(evs, 0)}

\* <<0, l1, l1 + l2, ...>> for the lengths of the values of occ
RECURSIVE Sums(_)
Sums(occ) ==
    IF occ = <<>> THEN <<NInt(0)>>
    ELSE LET front == Sums(SubSeq(occ, 1, Len(occ) - 1))
         IN  Append(front, NAdd(front[Len(front)], NInt(Len(occ[Len(occ)]))))

RECURSIVE Columns(_, _)
\* what data() of reader r returns once r has read the values occ, in order
Columns(r, occ) ==
    LET node == Nodes[r]
        all == Flatten(occ)
    IN  CASE node.kind = "BasicTypeReader" -> occ
          [] node.kind \in {"TStringReader", "STLStringReader"} ->
                <<Sums(occ), [k \in 1..Len(all) |-> <<all[k]>>]>>
          [] node.kind = "TArrayReader" -> <<Sums(occ), all>>
          [] node.kind = "STLSeqReader" -> <<Sums(occ), Columns(node.kids[1], all)>>
          [] node.kind = "STLMapReader" ->
                <<Sums(occ),
                  Columns(node.kids[1], [k \in 1..Len(all) |-> all[k][1]]),
                  Columns(node.kids[2], [k \in 1..Len(all) |-> all[k][2]])>>
          [] node.kind = "GroupReader" ->
                [k \in 1..Len(node.kids) |->
                    Columns(node.kids[k], [j \in 1..Len(occ) |-> occ[j][k]])]

\* C12: a session whose events are the big-endian ROOT serializations of
\* values of the reader tree, one event per value under a matching offset
\* table, does not fail, and what it returns is those values, in order.
C12_RoundTrip ==
    \A vals \in Written :
        /\ status \in {"running", "returned"}
        /\ status = "returned" => output.val = Columns(1, vals)

\* the readers of the tree that own an offsets vector
OffsetReaders == {r \in 1..Len(Nodes) : HasOffsets(Nodes[r].kind)}

\* C13: the offsets vector of every reader that owns one starts with 0 and
\* never decreases from one entry to the next, whatever was read.
C13_OffsetsMonotone ==
    \A r \in OffsetReaders :
        LET offs == cols[r].offsets
        IN  /\ offs[1] = NInt(0)
            /\ \A k \in 1..(Len(offs) - 1) : ~NLt(offs[k + 1], offs[k])

\* reader r is between two of its reads: no read of it is in progress and no
\* read of the session has faulted or thrown
Between(r) ==
    /\ status \in {"running", "returned"}
    /\ \A k \in 1..Len(stack) : stack[k].rid # r

\* the last entry of the offsets vector of reader r
LastOffset(r) == cols[r].offsets[Len(cols[r].offsets)]

\* C14: after N completed reads of a reader, a primitive reader's column has
\* N entries; a TArray, TString or STLString reader has N + 1 offsets and
\* offsets[N] data entries; an STLSeq or STLMap reader has N + 1 offsets and
\* each of its element readers has completed offsets[N] reads.
C14_ColumnLengths ==
    \A r \in 1..Len(Nodes) :
        Between(r) =>
            CASE Nodes[r].kind = "BasicTypeReader" ->
                    NInt(Len(cols[r].data)) = done[r]
              [] Nodes[r].kind \in {"TArrayReader", "TStringReader", "STLStringReader"} ->
                    /\ NInt(Len(cols[r].offsets)) = NAdd(done[r], NInt(1))
                    /\ NInt(Len(cols[r].data)) = LastOffset(r)
              [] Nodes[r].kind \in {"STLSeqReader", "STLMapReader"} ->
                    /\ NInt(Len(cols[r].offsets)) = NAdd(done[r], NInt(1))
                    /\ \A k \in 1..Len(Nodes[r].kids) :
                          done[Nodes[r].kids[k]] = LastOffset(r)
              [] OTHER -> TRUE

\* the one-byte length at position c of the blob, or the 32-bit length that
\* follows the byte 255
LengthAt(c) ==
    IF data[c + 1] < 255 THEN data[c + 1]
    ELSE Small(U32(<<data[c + 5], data[c + 4], data[c + 3], data[c + 2]>>))

\* the number of bytes of the length field at position c
LengthField(c) == IF data[c + 1] < 255 THEN 1 ELSE 5

\* where the container length is when a read starts at the cursor: after the
\* six bytes of fNBytes and fVersion if with_header, at the cursor if not
LengthPos == IF TopNode.flag THEN cursor + 6 ELSE cursor

\* C15: a read of an STLSeq, STLMap or STLString reader consumes the fNBytes
\* and fVersion header before the container length exactly when the reader
\* was built with with_header = true; without it the first bytes consumed
\* are the length field.
C15_HeaderIffFlag ==
    [][ /\ \A kind \in {"STLSeqReader", "STLMapReader"} :
              (At(kind, "start") /\ status' = "running" /\ cursor' <= BlobLen)
                 => LET f == stack'[Len(stack')]
                        c == LengthPos
                    IN  /\ f.len = c
                        /\ f.hdr = TopNode.flag
                        /\ cursor' = c + 4
                        /\ f.n = U32(<<data[c + 4], data[c + 3], data[c + 2], data[c + 1]>>)
        /\ (At("STLStringReader", "start") /\ status' = "running" /\ cursor' <= BlobLen)
              => /\ LengthPos < cursor'
                 /\ cursor' = LengthPos + LengthField(LengthPos) + LengthAt(LengthPos)
      ]_vars

\* the root is a CArrayReader with is_obj = false and flat_size = 0 over a
\* reader of a one-byte type
DynamicCArray ==
    /\ Nodes[1].kind = "CArrayReader"
    /\ ~Nodes[1].flag
    /\ Nodes[1].n = 0
    /\ Nodes[Nodes[1].kids[1]].kind = "BasicTypeReader"
    /\ TypeSize(Nodes[Nodes[1].kids[1]].T) = 1

\* C16: a CArray reader with flat_size = 0 and is_obj = false over a one-byte
\* element reader decodes every byte of each event as an element and appends
\* the running element count to its own offsets, and data() is (offsets,
\* child data): the session over the event 01 02 03 04 returns
\* ([0, 4], [1, 2, 3, 4]), and the last offset is the number of elements.
C16_DynamicCArray ==
    (DynamicCArray /\ status = "returned")
       => output.val = << [k \in 1..Len(offsets) |-> NInt(offsets[k])],
                          [k \in 1..BlobLen |-> <<data[k]>>] >>

\* C17: a read of an STLSeqReader reads, after the header if any, the 32-bit
\* fSize, appends offsets.back() + fSize (a uint32_t sum) to its offsets and
\* nothing to any other column, and returns once the element reader has
\* completed exactly fSize reads; with fSize = 0 the element reader is not
\* invoked and the read returns with the cursor just after the length field.
C17_SeqRead ==
    [][ /\ (At("STLSeqReader", "start") /\ status' = "running" /\ cursor' <= BlobLen)
              => LET c == stack'[Len(stack')].len
                     fSize == U32(<<data[c + 4], data[c + 3], data[c + 2], data[c + 1]>>)
                     offs == cols[Top.rid].offsets
                 IN  /\ cursor' = c + 4
                     /\ stack'[Len(stack')].n = fSize
                     /\ cols'[Top.rid].offsets =
                           Append(offs, Wrap32(NAdd(offs[Len(offs)], fSize)))
                     /\ fSize = NInt(0) =>
                           cols'[Top.rid].offsets[Len(offs) + 1] = offs[Len(offs)]
                     /\ \A r \in 1..Len(Nodes) : r # Top.rid => cols'[r] = cols[r]
                     /\ done' = done
        /\ (At("STLSeqReader", "body") /\ Len(stack') < Len(stack))
              => /\ NSub(done[TopNode.kids[1]], Top.d0[1]) = Top.n
                 /\ cursor' = cursor
                 /\ cols' = cols
                 /\ Top.n = NInt(0) => (cursor = Top.len + 4 /\ Top.inv = <<>>)
      ]_vars

\* the session over 00 00 00 02 00 00 00 07 00 00 00 08 and the empty
\* sequence 00 00 00 00 has returned offsets [0, 2, 2] and elements [7, 8]
C17_Witness ==
    /\ status = "returned"
    /\ Nodes = <<STLSeqReader(FALSE, 2), BasicTypeReader("int32_t")>>
    /\ data = BE32(2) \o BE32(7) \o BE32(8) \o BE32(0)
    /\ offsets = <<0, 12, 16>>
    /\ output.val = << <<NInt(0), NInt(2), NInt(2)>>, <<<<7, 0, 0, 0>>, <<8, 0, 0, 0>>>> >>

\* a read of an object-wise STLMapReader is in progress, past its length field
InMapLoop ==
    /\ status = "running"
    /\ stack # <<>>
    /\ TopNode.kind = "STLMapReader"
    /\ TopNode.T = "obj_wise"
    /\ Top.pc # "start"

\* C18: an object-wise STLMapReader read invokes, for each of its fSize
\* entries, the key reader's read and immediately after it the value reader's
\* read: the invocations alternate, the first is a key's, and at the return
\* each of the two readers has completed exactly fSize reads.
C18_MapAlternation ==
    [][ InMapLoop =>
           /\ cursor' = cursor /\ cols' = cols
           /\ Len(stack') > Len(stack) =>
                 stack'[Len(stack')].rid =
                    IF Len(Top.inv) % 2 = 0 THEN TopNode.kids[1] ELSE TopNode.kids[2]
           /\ Len(stack') < Len(stack) =>
                 /\ Top.inv = [j \in 1..(2 * Small(Top.n)) |->
                                  IF j % 2 = 1 THEN TopNode.kids[1] ELSE TopNode.kids[2]]
                 /\ NSub(done[TopNode.kids[1]], Top.d0[1]) = Top.n
                 /\ NSub(done[TopNode.kids[2]], Top.d0[2]) = Top.n
      ]_vars

\* the map {1: 10, 2: 20} has been read object-wise: keys [1, 2], values
\* [10, 20], in the order key, value, key, value
C18_Witness ==
    /\ status = "returned"
    /\ Nodes[1].kind = "STLMapReader" /\ Nodes[1].T = "obj_wise"
    /\ output.val = << <<NInt(0), NInt(2)>>, <<<<1>>, <<2>>>>, <<<<10>>, <<20>>>> >>
    /\ \E k \in 1..Len(regions) :
          /\ regions[k].kind = "STLMapReader"
          /\ regions[k].inv = <<2, 3, 2, 3>>

\* C19: a read of a TStringReader consumes a length byte b and, if b = 255, a
\* 32-bit big-endian length; it appends exactly that many of the following
\* bytes to its data and then the new total data length to its offsets.
\* Strings of 254, 255 and 256 bytes take 255, 260 and 261 bytes of the blob;
\* the events 03 'a' 'b' 'c' and 00 give the offsets [0, 3, 3].
C19_TStringRead ==
    [][ /\ (At("TStringReader", "start") /\ status' = "running" /\ cursor' <= BlobLen)
              => LET k == LengthField(cursor)
                     n == LengthAt(cursor)
                     r == Top.rid
                 IN  /\ cursor' = cursor + k + n
                     /\ cols'[r].data =
                           cols[r].data \o [j \in 1..n |-> <<data[cursor + k + j]>>]
                     /\ cols'[r].offsets =
                           Append(cols[r].offsets, NInt(Len(cols[r].data) + n))
        /\ (status' = "returned" /\ Nodes = <<TStringReader>>
              /\ data = <<3, 97, 98, 99, 0>> /\ offsets = <<0, 4, 5>>)
              => output'.val = << <<NInt(0), NInt(3), NInt(3)>>, <<<<97>>, <<98>>, <<99>>>> >>
      ]_vars

\* strings of 255 and 256 bytes have been read from 260 and 261 bytes
C19_Witness ==
    /\ status = "returned"
    /\ Nodes = <<TStringReader>>
    /\ data = Str(255) \o Str(256)
    /\ offsets = <<0, 260, 521>>
    /\ output.val[1] = <<NInt(0), NInt(255), NInt(511)>>
    /\ Len(output.val[2]) = 511

\* the reader at the top is a TObjectReader that keeps no data
Canonical(node) == node.kind = "TObjectReader" /\ ~(node.T = "vectors" /\ node.flag)

\* C20: a read of a TObjectReader advances the cursor by 10 bytes (fVersion,
\* fUniqueID, fBits) when bit 1 << 4 of the big-endian fBits is clear and by
\* 12 bytes when it is set, whatever the other bits; the reader that keeps no
\* data changes no column and its data() is none after any number of reads.
C20_TObjectRead ==
    [][ /\ (At("TObjectReader", "start") /\ status' = "running" /\ cursor' <= BlobLen)
              => /\ cursor + 10 <= BlobLen
                 /\ cursor' = cursor + (IF (data[cursor + 10] \div 16) % 2 = 1
                                        THEN 12 ELSE 10)
                 /\ Canonical(TopNode) => cols' = cols
        /\ (status' = "returned" /\ Canonical(Nodes[1]))
              => output'.val = <<"None">>
      ]_vars

\* two TObjects have been read, the first with kIsReferenced among all bits
\* set (12 bytes), the second with every low bit but kIsReferenced (10 bytes)
C20_Witness ==
    /\ status = "returned"
    /\ Canonical(Nodes[1])
    /\ data = Ver \o BE32(9) \o <<255, 255, 255, 255>> \o <<0, 5>>
                \o Ver \o BE32(9) \o BE32(239)
    /\ offsets = <<0, 12, 22>>
    /\ cursor = 22
    /\ output.val = <<"None">>

\* a read of a GroupReader, or of an ObjectReader past its header, is at the
\* head of its loop over the children
InChildLoop ==
    /\ status = "running"
    /\ stack # <<>>
    /\ \/ TopNode.kind = "GroupReader"
       \/ TopNode.kind = "ObjectReader" /\ Top.pc = "body"

\* C21: a read of a GroupReader invokes the read of each child once, in list
\* order, and moves the cursor and changes the columns only through them; a
\* read of an ObjectReader first consumes the 6 bytes of fNBytes and fVersion
\* and then does the same; data() of both is the list of the children's
\* data() in list order.
C21_ChildrenInOrder ==
    [][ /\ (At("ObjectReader", "start") /\ status' = "running" /\ cursor' <= BlobLen)
              => /\ cursor' = cursor + 6
                 /\ cols' = cols /\ done' = done
                 /\ Len(stack') = Len(stack)
        /\ InChildLoop
              => /\ cursor' = cursor /\ cols' = cols /\ status' = status
                 /\ Len(stack') > Len(stack) =>
                       /\ Len(Top.inv) < Len(TopNode.kids)
                       /\ stack'[Len(stack')].rid = TopNode.kids[Len(Top.inv) + 1]
                 /\ Len(stack') < Len(stack) => Top.inv = TopNode.kids
        /\ (status' = "returned" /\ Nodes[1].kind \in {"GroupReader", "ObjectReader"})
              => /\ Len(output'.val) = Len(Nodes[1].kids)
                 /\ \A k \in 1..Len(Nodes[1].kids) :
                       Nodes[Nodes[1].kids[k]].kind = "BasicTypeReader"
                          => output'.val[k] = cols[Nodes[1].kids[k]].data
      ]_vars

\* ObjectReader( UInt8Reader, UInt16Reader ) has read 40 00 00 05 00 01 07 01 02:
\* the header, then the first child, then the second
C21_Witness ==
    /\ status = "returned"
    /\ Nodes[1].kind = "ObjectReader"
    /\ data = NB(5) \o Ver \o <<7, 1, 2>>
    /\ output.val = << <<<<7>>>>, <<<<2, 1>>>> >>
    /\ \E k \in 1..Len(regions) :
          /\ regions[k].kind = "ObjectReader"
          /\ regions[k].inv = <<2, 3>>
          /\ regions[k].from = 0 /\ regions[k].fin = 9

\* one read( buffer ) of an STLStringReader from c; val is the string read
SingleRead(flag, c) ==
    UNION { IF h.st # "ok" THEN {h} ELSE
      UNION { IF z.st # "ok" THEN {z} ELSE ReadBytes(z.cur, z.val)
              : z \in StringSize(h.cur) }
      : h \in OptionalHeader(flag, c) }

RECURSIVE SingleReads(_, _, _)
\* n successive read( buffer ) of an STLStringReader from c; val is the
\* strings read
SingleReads(flag, c, n) ==
    IF n = 0 THEN {Outcome("ok", "", c, <<>>)}
    ELSE UNION { IF o.st # "ok" THEN {o}
                 ELSE {IF s.st # "ok" THEN s ELSE [s EXCEPT !.val = Append(o.val, @)]
                          : s \in SingleRead(flag, o.cur)}
                 : o \in SingleReads(flag, c, n - 1) }

\* n successive reads of the element reader kid from c
ElementReads(kid, c, n) ==
    IF kid.kind = "STLStringReader" THEN SingleReads(kid.flag, c, n)
    ELSE ReadElems(c, kid.T, n)

\* a completed read, inside the blob, of a C array reader with flat_size > 0
\* over a string or a primitive element reader
FlatRegion(g) ==
    /\ g.kind \in {"CArrayReader", "CStyleArrayReader"}
    /\ g.fin <= BlobLen
    /\ Nodes[g.rid].n > 0
    /\ Nodes[Nodes[g.rid].kids[1]].kind \in {"STLStringReader", "BasicTypeReader"}

\* C22: a read of a C array reader with flat_size = n > 0 leaves the cursor
\* where n successive single reads of its element reader would (after the
\* header when is_obj), and a session of one such read leaves in the element
\* reader's data column what those n reads would; so for an STLStringReader,
\* with or without header, read( buffer, n ) is n times read( buffer ).
C22_BulkAsSingleReads ==
    \A k \in 1..Len(regions) :
        LET g == regions[k]
            kid == Nodes[Nodes[g.rid].kids[1]]
            c == IF g.hdr THEN g.from + 6 ELSE g.from
        IN  FlatRegion(g) =>
               \E o \in ElementReads(kid, c, Nodes[g.rid].n) :
                  /\ o.st = "ok"
                  /\ o.cur = g.fin
                  /\ (status = "returned" /\ Len(regions) = 1)
                        => cols[Nodes[g.rid].kids[1]].data =
                              IF kid.kind = "STLStringReader" THEN Flatten(o.val)
                              ELSE o.val

\* C23: when a CStyleArrayReader with flat_size <= 0 is read while event i_evt
\* is decoded, the end position it takes from the offset table is the end of
\* that event, entry i_evt + 1 of the table, and the entry it takes it from is
\* none after entry E, the last one.
C23_PayloadEnd ==
    [][ (At("CStyleArrayReader", "start") /\ TopNode.n <= 0)
           => /\ status' = "running"
              /\ stack'[Len(stack)].endp = NInt(offsets[i_evt + 2])
              /\ stack'[Len(stack)].scan <= entries ]_vars

\* every session of a CStyleArrayReader; of the other trees the sessions of
\* one event at most, and of a primitive reader those of an integer type over
\* equal bytes (no loop depends on the value a primitive reader reads)
InitLive ==
    /\ Init
    /\ entries <= 1 \/ Nodes[1].kind = "CStyleArrayReader"
    /\ Nodes[1].kind = "BasicTypeReader" => \A k \in 1..BlobLen : data[k] = data[1]
    /\ \A r \in 1..Len(Nodes) : ~IsFloatType(Nodes[r].T)

\* py_read_data and the reads it calls run in one thread that is never
\* suspended for good: a step that can be taken is taken
SpecLive == InitLive /\ [][Next]_vars /\ WF_vars(Next)

\* C24: every session ends: the status eventually is no longer "running" (the
\* session returned, threw, or the process faulted), and a session that
\* returned made exactly E root reads.
C24_SessionEnds ==
    /\ <>(status # "running")
    /\ [](status = "returned" => Len(rootCalls) = entries)

IsPrefix(s, t) == Len(s) <= Len(t) /\ SubSeq(t, 1, Len(s)) = s

\* C25: every step leaves each vector of each reader (data,
\* offsets, bits, pidf) with its former contents as a prefix of the new ones,
\* within a session the event index never decreases, and the k-th root read
\* of the session is the read of event k - 1.
C25_AppendOnly ==
    [][ /\ \A r \in 1..Len(Nodes) :
              /\ IsPrefix(cols[r].data, cols'[r].data)
              /\ IsPrefix(cols[r].offsets, cols'[r].offsets)
              /\ IsPrefix(cols[r].bits, cols'[r].bits)
              /\ IsPrefix(cols[r].pidf, cols'[r].pidf)
        /\ status = "running"
              => /\ i_evt' \in {i_evt, i_evt + 1}
                 /\ Len(rootCalls') > Len(rootCalls)
                       => /\ Len(rootCalls') = Len(rootCalls) + 1
                          /\ rootCalls'[Len(rootCalls')].evt = Len(rootCalls)
                          /\ i_evt = Len(rootCalls) ]_vars

\* a session of two events returned, and a reader's data and offsets grew in
\* each of them
C25_Witness ==
    /\ status = "returned"
    /\ Len(rootCalls) = 2
    /\ \E r \in 1..Len(Nodes) :
          /\ Len(cols[r].offsets) = 3
          /\ Small(cols[r].offsets[2]) > 0
          /\ Small(cols[r].offsets[3]) > Small(cols[r].offsets[2])
          /\ Len(cols[r].data) = Small(cols[r].offsets[3])

\* the offsets a session appends when it repeats a session that left offs
Repeated(offs) ==
    [k \in 1..(Len(offs) - 1) |-> Wrap32(NAdd(offs[Len(offs)], offs[k + 1]))]

\* the vectors of a reader after a session that repeats the session that left c
Twice(c) ==
    [data |-> c.data \o c.data,
     offsets |-> IF c.offsets = <<>> THEN <<>> ELSE c.offsets \o Repeated(c.offsets),
     bits |-> c.bits \o c.bits,
     pidf |-> c.pidf \o c.pidf]

\* C26: the return of read_data, which calls data(), changes no vector of a
\* reader and returns what data() gives of them; a second call over no event
\* returns what the first returned and leaves the vectors as they were (two
\* consecutive data()); a second call over the same blob and table leaves in
\* each vector the first session's values followed by the second's, which are
\* as many, and the same unless they are floating-point values.
C26_DataKeepsReader ==
    [][ (status = "running" /\ status' = "returned")
           => /\ cols' = cols
              /\ output'.val = Data(1)
              /\ (output.session = 2 /\ cursor <= BlobLen)
                    => IF entries = 0
                       THEN output'.val = output.prev /\ cols' = output.first
                       ELSE \A r \in 1..Len(Nodes) :
                               /\ IsPrefix(output.first[r].data, cols'[r].data)
                               /\ IsPrefix(output.first[r].offsets, cols'[r].offsets)
                               /\ Len(cols'[r].data) = 2 * Len(output.first[r].data)
                               /\ ~IsFloatType(Nodes[r].T)
                                     => cols'[r] = Twice(output.first[r]) ]_vars

\* a second call over the same event returned, and a reader holds the values
\* and offsets of both sessions
C26_Witness ==
    /\ status = "returned"
    /\ output.session = 2
    /\ entries = 1
    /\ cursor = BlobLen
    /\ \E r \in 1..Len(Nodes) :
          /\ Len(cols[r].offsets) = 3
          /\ Len(cols[r].data) = 2 * Len(output.first[r].data)
          /\ Len(cols[r].data) > 0
          /\ output.val # output.prev

====
